---- MODULE Spec2Model ----
\* Verification model of giverny: the host-side git daemon lifecycle
\* (internal/git/git_server.go), the outie workflow (outie.Run), and the
\* innie workflow with its post-Claude menu (innie.Run, interactive.PostClaudeMenu).
EXTENDS Integers, Sequences, FiniteSets, TLC

\* ---------------------------------------------------------------------
\* Program constants (internal/git/git_server.go:12-18)
\* ---------------------------------------------------------------------
minPort == 2001
maxPort == 9999
maxRetries == 10

\* ---------------------------------------------------------------------
\* Bounds of the model
\* ---------------------------------------------------------------------
\* number of polls of the PID file that fit before the startup deadline
MaxPolls == 2
\* number of StopServer calls the server test makes
MaxStops == 2

\* values rand.Intn(maxPort-minPort+1) is sampled at: both ends of its range
RandSamples == {0, maxPort - minPort}
\* process ids the kernel hands out (12 has 1 as a proper decimal prefix)
Pids == {1, 12}

\* the nil *ServerCmd
Nil == [nil |-> TRUE, ActualPid |-> 0, fromFile |-> <<>>, liveAtReturn |-> FALSE]
\* a file that does not exist, and a file holding the bytes d
Absent == [exists |-> FALSE, data |-> <<>>]
File(d) == [exists |-> TRUE, data |-> d]

\* ---------------------------------------------------------------------
\* Pure helpers
\* ---------------------------------------------------------------------
randomPortPastMax(r) == minPort + r + 1

\* randomPort: minPort + rand.Intn(maxPort-minPort+1), r being the drawn value
randomPort(r) == minPort + r

Ports == {randomPort(r) : r \in RandSamples}

Digits == {"0", "1", "2", "3", "4", "5", "6", "7", "8", "9"}

DigitVal(c) ==
    CASE c = "0" -> 0 [] c = "1" -> 1 [] c = "2" -> 2 [] c = "3" -> 3
      [] c = "4" -> 4 [] c = "5" -> 5 [] c = "6" -> 6 [] c = "7" -> 7
      [] c = "8" -> 8 [] c = "9" -> 9

\* what git daemon writes into --pid-file: the decimal pid and a newline
PidText(p) ==
    IF p < 10 THEN <<CHOOSE c \in Digits : DigitVal(c) = p, "\n">>
    ELSE <<CHOOSE c \in Digits : DigitVal(c) = p \div 10,
           CHOOSE c \in Digits : DigitVal(c) = p % 10, "\n">>

\* length of the longest prefix of s made of decimal digits
RECURSIVE DigitPrefixLen(_)
DigitPrefixLen(s) ==
    IF s = <<>> \/ Head(s) \notin Digits THEN 0
    ELSE 1 + DigitPrefixLen(Tail(s))

RECURSIVE DecimalValue(_, _)
DecimalValue(s, n) ==
    IF n = 0 THEN 0 ELSE DecimalValue(s, n - 1) * 10 + DigitVal(s[n])

\* fmt.Sscanf skips leading blanks before %d (a newline is not a blank)
RECURSIVE SkipSpaces(_)
SkipSpaces(s) ==
    IF s # <<>> /\ Head(s) \in {" ", "\t"} THEN SkipSpaces(Tail(s)) ELSE s

\* %d accepts one sign
Negative(s) == SkipSpaces(s) # <<>> /\ Head(SkipSpaces(s)) = "-"
Unsigned(s) ==
    LET t == SkipSpaces(s)
    IN IF t # <<>> /\ Head(t) \in {"+", "-"} THEN Tail(t) ELSE t

\* fmt.Sscanf(data, "%d", &pid): ok iff a digit follows the blanks and the
\* sign; the value is that of the run of digits, the rest is ignored
SscanfOk(data) == DigitPrefixLen(Unsigned(data)) > 0
SscanfVal(data) ==
    LET u == Unsigned(data)
        v == DecimalValue(u, DigitPrefixLen(u))
    IN IF Negative(data) THEN 0 - v ELSE v

\* ---------------------------------------------------------------------
\* State
\* ---------------------------------------------------------------------
VARIABLES
    \* --- git daemon lifecycle (internal/git/git_server.go) ---
    srv,         \* position inside StartServer: idle, loop, poll, ok, fail
    attempt,     \* loop variable of StartServer
    port,        \* candidate port of the current attempt
    lastErr,     \* lastErr of StartServer
    pidFile,     \* readiness file of the current attempt: Absent or File(bytes)
    polls,       \* polls of the readiness file made in the current attempt
    wrapper,     \* the exec.Cmd child: none, running, exited, reaped
    cur,         \* pid of the live daemon forked by the current wrapper, 0 if none
    procs,       \* process table: pid -> what runs under it
    busyPorts,   \* ports bound by programs that are not ours
    handle,      \* what StartServer returned: Nil or a ServerCmd
    retPort,     \* the port StartServer returned
    stop,        \* position inside StopServer: idle, kill, wait
    stopArg,     \* argument of the StopServer call in progress / last made
    stopHist,    \* the completed StopServer calls, in order
    signalled    \* what the StopServer call in progress found under ActualPid

srvVars == <<srv, attempt, port, lastErr, pidFile, polls, wrapper, cur, procs,
             busyPorts, handle, retPort>>
stopVars == <<stop, stopArg, stopHist, signalled>>
serverVars == <<srvVars, stopVars>>

Free == [st |-> "free", port |-> 0]
AliveStates == {"starting", "writing", "written", "serving"}
NoErr == [kind |-> "none", port |-> 0, att |-> 0]

\* a daemon serving on port q
Listening(q) == \E p \in Pids : procs[p].st = "serving" /\ procs[p].port = q
\* bind(2) on q succeeds
PortFree(q) == q \notin busyPorts /\ ~Listening(q)

\* ---------------------------------------------------------------------
\* StartServer (git_server.go:23-36)
\* ---------------------------------------------------------------------
MoreAttemptsOffByOne(a) == a <= maxRetries

\* loop condition of StartServer: attempt < maxRetries
MoreAttempts(a) == a < maxRetries

\* a caller enters StartServer
StartServerEnter ==
    /\ srv = "idle"
    /\ srv' = "loop"
    /\ attempt' = 0
    /\ lastErr' = NoErr
    /\ UNCHANGED <<port, pidFile, polls, wrapper, cur, procs, busyPorts, handle, retPort>>

\* tryStartServer up to cmd.Start (git_server.go:50-77): draw the port, create
\* the temporary PID file, start "git daemon"
tryStartServerBegin ==
    /\ srv = "loop"
    /\ MoreAttempts(attempt)
    /\ \E r \in RandSamples :
         LET q == randomPort(r) IN
         /\ \/ \* os.CreateTemp fails: return before anything is started
               /\ lastErr' = [kind |-> "create_pid", port |-> q, att |-> attempt]
               /\ attempt' = attempt + 1
               /\ UNCHANGED <<srv, port, pidFile, polls, wrapper, cur, procs>>
            \/ \* cmd.Start fails (no git binary, fork refused); the deferred
               \* os.Remove deletes the empty file
               /\ lastErr' = [kind |-> "start", port |-> q, att |-> attempt]
               /\ attempt' = attempt + 1
               /\ pidFile' = Absent
               /\ UNCHANGED <<srv, port, polls, wrapper, cur, procs>>
            \/ \* cmd.Start succeeds: the wrapper runs and forks the daemon
               \E p \in Pids :
                 /\ procs[p].st = "free"
                 /\ procs' = [procs EXCEPT ![p] = [st |-> "starting", port |-> q]]
                 /\ port' = q
                 /\ cur' = p
                 /\ wrapper' = "running"
                 /\ pidFile' = File(<<>>)
                 /\ polls' = 0
                 /\ srv' = "poll"
                 /\ UNCHANGED <<attempt, lastErr>>
    /\ UNCHANGED <<busyPorts, handle, retPort>>

PollAgainUnlessUnparsable(f) == ~f.exists \/ f.data = <<>>

\* one iteration of pollForPidFile (git_server.go:99-126) that ends in a
\* sleep: read error, empty file or unparsable content
PollAgain(f) == ~f.exists \/ f.data = <<>> \/ ~SscanfOk(f.data)

\* the iteration returns the pid
PollSuccess(f) == ~PollAgain(f)

pollForPidFileSleep ==
    /\ srv = "poll"
    /\ polls < MaxPolls
    /\ PollAgain(pidFile)
    /\ polls' = polls + 1
    /\ UNCHANGED <<srv, attempt, port, lastErr, pidFile, wrapper, cur, procs,
                   busyPorts, handle, retPort>>

\* the iteration that parses a pid: tryStartServer returns the ServerCmd
\* (git_server.go:87), its deferred os.Remove deletes the PID file, and
\* StartServer returns it with the port (git_server.go:29-31)
pollForPidFileFound ==
    /\ srv = "poll"
    /\ polls < MaxPolls
    /\ PollSuccess(pidFile)
    /\ handle' = [nil |-> FALSE,
                  ActualPid |-> SscanfVal(pidFile.data),
                  fromFile |-> pidFile.data,
                  liveAtReturn |-> cur # 0]
    /\ retPort' = port
    /\ pidFile' = Absent
    /\ port' = 0
    /\ polls' = 0
    /\ lastErr' = NoErr
    /\ srv' = "ok"
    /\ UNCHANGED <<attempt, wrapper, cur, procs, busyPorts>>

\* the deadline has passed (git_server.go:128): tryStartServer kills the
\* wrapper, waits for it (git_server.go:82-83) and removes the PID file; a
\* daemon the wrapper had forked is not signalled
pollForPidFileTimeout ==
    /\ srv = "poll"
    /\ polls >= 1
    /\ wrapper' = "reaped"
    /\ cur' = 0
    /\ pidFile' = Absent
    /\ lastErr' = [kind |-> "timeout", port |-> port, att |-> attempt]
    /\ attempt' = attempt + 1
    /\ port' = 0
    /\ polls' = 0
    /\ srv' = "loop"
    /\ UNCHANGED <<procs, busyPorts, handle, retPort>>

\* the budget is used up (git_server.go:35): nil handle, port 0, wrapped lastErr
StartServerFail ==
    /\ srv = "loop"
    /\ ~MoreAttempts(attempt)
    /\ srv' = "fail"
    /\ handle' = Nil
    /\ retPort' = 0
    /\ UNCHANGED <<attempt, port, lastErr, pidFile, polls, wrapper, cur, procs, busyPorts>>

\* ---------------------------------------------------------------------
\* The processes "git daemon" starts (the program's environment)
\* ---------------------------------------------------------------------
\* the states of the PID file while the daemon p is writing it: the
\* non-empty proper prefixes of the text
PartialTexts(p) == {SubSeq(PidText(p), 1, n) : n \in 1..(Len(PidText(p)) - 1)}

\* git-daemon has written a part of its pid: nothing makes the write of the
\* file one step for the reader of pollForPidFile (git_server.go:101)
DaemonWritePartial(p) ==
    /\ procs[p].st = "starting"
    /\ p = cur /\ srv = "poll"
    /\ \E d \in PartialTexts(p) : pidFile' = File(d)
    /\ procs' = [procs EXCEPT ![p].st = "writing"]
    /\ UNCHANGED <<srv, attempt, port, lastErr, polls, wrapper, cur, busyPorts,
                   handle, retPort>>

\* git-daemon writes its pid into --pid-file before it binds the port. Only
\* the daemon of the attempt being polled still has its file; a daemon left
\* over from an attempt that timed out writes a path nobody reads.
DaemonWritePid(p) ==
    /\ procs[p].st \in {"starting", "writing"}
    /\ procs' = [procs EXCEPT ![p].st = "written"]
    /\ pidFile' = IF p = cur /\ srv = "poll" THEN File(PidText(p)) ELSE pidFile
    /\ UNCHANGED <<srv, attempt, port, lastErr, polls, wrapper, cur, busyPorts,
                   handle, retPort>>

\* git-daemon binds its port and serves, or dies with "unable to allocate
\* any listen sockets" when the port is taken
DaemonBind(p) ==
    /\ procs[p].st = "written"
    /\ IF PortFree(procs[p].port)
       THEN procs' = [procs EXCEPT ![p].st = "serving"] /\ cur' = cur
       ELSE procs' = [procs EXCEPT ![p] = Free] /\ cur' = IF cur = p THEN 0 ELSE cur
    /\ UNCHANGED <<srv, attempt, port, lastErr, pidFile, polls, wrapper, busyPorts,
                   handle, retPort>>

\* git-daemon dies before it writes the pid (for instance a bad --base-path)
DaemonDie(p) ==
    /\ procs[p].st = "starting"
    /\ procs' = [procs EXCEPT ![p] = Free]
    /\ cur' = IF cur = p THEN 0 ELSE cur
    /\ UNCHANGED <<srv, attempt, port, lastErr, pidFile, polls, wrapper, busyPorts,
                   handle, retPort>>

\* the wrapper "git" ends once the git-daemon it waits for has ended
WrapperExit ==
    /\ wrapper = "running"
    /\ cur = 0
    /\ wrapper' = "exited"
    /\ UNCHANGED <<srv, attempt, port, lastErr, pidFile, polls, cur, procs, busyPorts,
                   handle, retPort>>

\* the kernel hands the pid of the ended daemon to an unrelated process, of
\* the same user ("other") or of another user ("foreign")
PidReuse(k) ==
    /\ srv = "ok"
    /\ procs[handle.ActualPid].st = "free"
    /\ procs' = [procs EXCEPT ![handle.ActualPid] = [st |-> k, port |-> 0]]
    /\ UNCHANGED <<srv, attempt, port, lastErr, pidFile, polls, wrapper, cur, busyPorts,
                   handle, retPort>>

\* what the fileReader handed to pollForPidFile returns
\* (test_helpers.go:149-309): an error (the file is missing, may not be
\* read), no bytes, bytes that are no number, and numbers
Unreadable == [exists |-> FALSE, data |-> <<"permission denied">>]
ReadResults ==
    {Absent, Unreadable, File(<<>>), File(<<"\n">>), File(<<"a", "1", "\n">>),
     File(<<"-", "\n">>), File(<<" ", "1", "2", "\n">>), File(<<"-", "1", "\n">>)}
    \cup {File(PidText(p)) : p \in Pids}

\* the reader returns something else at the next read
MockReader ==
    /\ srv = "poll"
    /\ pidFile' \in ReadResults \ {pidFile}
    /\ UNCHANGED <<srv, attempt, port, lastErr, polls, wrapper, cur, procs, busyPorts,
                   handle, retPort>>

\* ---------------------------------------------------------------------
\* StopServer (git_server.go:132-160)
\* ---------------------------------------------------------------------
\* the error of process.Kill() on what runs under the pid
KillError(st) ==
    CASE st = "free" -> "os: process already finished"
      [] st = "foreign" -> "operation not permitted"
      [] OTHER -> ""

\* the errors of Kill that StopServer ignores (git_server.go:147-148)
Tolerated(e) == e \in {"os: process already finished", "no such process"}

\* StopServer signals the pid only when it is positive (git_server.go:139)
SignalsPid(h) == h.ActualPid > 0

\* a completed StopServer call: its argument, its result, and what the
\* signal found under ActualPid
Stopped(isNil, res, found) == [nil |-> isNil, res |-> res, found |-> found]

\* StopServer(nil) returns nil at once (git_server.go:133-135)
StopServerNil ==
    /\ stop = "kill"
    /\ stopArg = Nil
    /\ stop' = "idle"
    /\ stopHist' = Append(stopHist, Stopped(TRUE, "ok", "none"))
    /\ UNCHANGED <<stopArg, signalled>>
    /\ UNCHANGED srvVars

\* os.FindProcess + process.Kill on ActualPid (git_server.go:139-152)
StopServerKill ==
    /\ stop = "kill"
    /\ stopArg # Nil
    /\ IF SignalsPid(stopArg)
       THEN LET pid == stopArg.ActualPid
                st == procs[pid].st
                err == KillError(st)
                found == IF st \in AliveStates
                         THEN (IF pid = cur THEN "daemon" ELSE "leftover")
                         ELSE st
            IN /\ procs' = IF err = "" THEN [procs EXCEPT ![pid] = Free] ELSE procs
               /\ cur' = IF err = "" /\ pid = cur THEN 0 ELSE cur
               /\ IF err # "" /\ ~Tolerated(err)
                  THEN /\ stop' = "idle"
                       /\ stopHist' = Append(stopHist, Stopped(FALSE, "err", found))
                       /\ UNCHANGED signalled
                  ELSE /\ stop' = "wait"
                       /\ signalled' = found
                       /\ UNCHANGED stopHist
       ELSE /\ signalled' = "skipped"
            /\ stop' = "wait"
            /\ UNCHANGED <<procs, cur, stopHist>>
    /\ UNCHANGED <<stopArg, srv, attempt, port, lastErr, pidFile, polls, wrapper,
                   busyPorts, handle, retPort>>

\* serverCmd.Wait() (git_server.go:155-157): blocks while the wrapper runs,
\* reaps it once it has ended, fails at once (ignored) if it was reaped before
StopServerWait ==
    /\ stop = "wait"
    /\ wrapper \in {"exited", "reaped"}
    /\ wrapper' = "reaped"
    /\ stop' = "idle"
    /\ stopHist' = Append(stopHist, Stopped(FALSE, "ok", signalled))
    /\ signalled' = "none"
    /\ UNCHANGED stopArg
    /\ UNCHANGED <<srv, attempt, port, lastErr, pidFile, polls, cur, procs, busyPorts,
                   handle, retPort>>

\* ---------------------------------------------------------------------
\* TestStartServer (internal/git/test_helpers.go:67-137): start the server,
\* then stop it, with the handle or with nil
\* ---------------------------------------------------------------------
TestStart ==
    /\ StartServerEnter
    /\ UNCHANGED stopVars

TestStop(h) ==
    /\ srv \in {"ok", "fail"}
    /\ stop = "idle"
    /\ Len(stopHist) < MaxStops
    /\ stop' = "kill"
    /\ stopArg' = h
    /\ UNCHANGED <<stopHist, signalled>>
    /\ UNCHANGED srvVars

\* ---------------------------------------------------------------------
\* git.GetBranchCommitRange over a repository
\* ---------------------------------------------------------------------
\* A repository holds MaxRepoCommits commits, numbered by commit date: the
\* parents of a commit are older than the commit, a commit without parents is
\* a root, a commit with two parents is a merge.  refs gives the commit each
\* name resolves to, 0 when the name does not resolve:
\*   branch    giverny/<TASK-ID>
\*   start     giverny/<TASK-ID>-START
\*   main      main
\*   upstream  the remote-tracking ref that branch.<name>.merge names
MaxRepoCommits == 4

\* the full hash of commit c
FullHash(c) == <<"full", c>>

RepoCommits == 1..MaxRepoCommits

RefNames == {"branch", "start", "main", "upstream"}

ParentSets(c) == {P \in SUBSET (1..(c - 1)) : Cardinality(P) <= 2}

Repos ==
    {r \in [parents : {f \in [RepoCommits -> SUBSET RepoCommits] :
                          \A c \in RepoCommits : f[c] \in ParentSets(c)},
            refs : [RefNames -> 0..MaxRepoCommits]] :
        r.refs["upstream"] \in {0, r.refs["branch"], r.refs["main"]}}

\* the commits reachable from commit c, c included
RECURSIVE Reach(_, _)
Reach(r, c) == {c} \cup UNION {Reach(r, p) : p \in r.parents[c]}

\* git rev-parse <name>: the commit, or 0 with a non-zero exit status
revParse(r, name) == r.refs[name]

RECURSIVE NewestFirst(_)
NewestFirst(S) ==
    IF S = {} THEN <<>>
    ELSE LET m == CHOOSE x \in S : \A y \in S : y <= x
         IN <<m>> \o NewestFirst(S \ {m})

ReverseNot(s) == s

\* the option --reverse of git rev-list
Reverse(s) == [i \in 1..Len(s) |-> s[Len(s) + 1 - i]]

\* git rev-list <from>..<to>: the commits reachable from to and not from
\* from, newest first
revList(r, from, to) == NewestFirst(Reach(r, to) \ Reach(r, from))

\* git merge-base a b prints one best common ancestor of a and b; it fails
\* (0) when a name does not resolve or the two share no commit
CommonAncestors(r, a, b) ==
    IF revParse(r, a) = 0 \/ revParse(r, b) = 0 THEN {}
    ELSE Reach(r, revParse(r, a)) \cap Reach(r, revParse(r, b))

BestCommonAncestors(r, a, b) ==
    {c \in CommonAncestors(r, a, b) :
        \A d \in CommonAncestors(r, a, b) : c \in Reach(r, d) => d = c}

mergeBase(r, a, b) ==
    IF BestCommonAncestors(r, a, b) = {} THEN {0} ELSE BestCommonAncestors(r, a, b)

\* the (firstCommit, lastCommit, err) GetBranchCommitRange returns; a hash
\* is FullHash of the commit, "" is <<>>, a nil error is ""
Range(first, last, err) == [first |-> first, last |-> last, err |-> err]

EmptyRange == Range(<<>>, <<>>, "")

parentBranchFromUpstream(r) == IF revParse(r, "upstream") # 0 THEN "upstream" ELSE "main"

\* parentBranch := "main"
parentBranch(r) == "main"

mergeBaseFailedIsError == Range(<<>>, <<>>, "failed to find merge-base")

\* what GetBranchCommitRange returns when git merge-base fails
mergeBaseFailed == EmptyRange

EndpointsKeepLast(commits, lastCommit) ==
    IF commits = <<>> THEN Range(<<>>, lastCommit, "")
    ELSE Range(FullHash(commits[1]), lastCommit, "")

\* firstCommit = lines[0], lastCommit
Endpoints(commits, lastCommit) ==
    IF commits = <<>> THEN EmptyRange
    ELSE Range(FullHash(commits[1]), lastCommit, "")

\* GetBranchCommitRange in repository r, mb being what git merge-base prints
GetBranchCommitRange(r, mb) ==
    IF revParse(r, "branch") = 0
    THEN Range(<<>>, <<>>, "failed to get last commit for branch")
    ELSE LET lastCommit == FullHash(revParse(r, "branch"))
         IN IF revParse(r, "start") # 0
            THEN Endpoints(Reverse(revList(r, revParse(r, "start"), revParse(r, "branch"))),
                           lastCommit)
            ELSE IF mb = 0 THEN mergeBaseFailed
            ELSE IF FullHash(mb) = lastCommit THEN EmptyRange
            ELSE Endpoints(Reverse(revList(r, mb, revParse(r, "branch"))), lastCommit)

VARIABLES
    repo,        \* the repository GetBranchCommitRange runs in
    range,       \* what GetBranchCommitRange returned, NoRange before the call
    instr        \* the commands Run printed for that range, NotPrinted before

rangeVars == <<repo, range, instr>>

NotPrinted == <<<<"not printed">>>>

NoRange == Range(<<>>, <<>>, "not called")

\* one call of GetBranchCommitRange(branchName)
CallGetBranchCommitRange ==
    /\ range = NoRange
    /\ \E mb \in mergeBase(repo, parentBranch(repo), "branch") :
          range' = GetBranchCommitRange(repo, mb)
    /\ UNCHANGED <<repo, instr>>

\* ---------------------------------------------------------------------
\* validateTaskID (src/cmd/giverny/main.go:165-206)
\* ---------------------------------------------------------------------
\* A string is the sequence of its code points: 9 tab, 10 newline, 12 form
\* feed, 13 carriage return, 31 unit separator, 32 space, 42 *, 45 -, 46 .,
\* 47 /, 58 :, 63 ?, 64 @, 91 [, 92 \, 94 ^, 97 a, 123 {, 126 ~, 127 delete,
\* 160 no-break space; 108 111 99 107 is "lock".
MaxFragments == 3

\* the TASK-IDs validated are made of at most MaxFragments of these
Fragments ==
    {<<c>> : c \in {9, 31, 32, 42, 45, 46, 47, 58, 63, 64, 91, 92, 94, 97, 123, 126, 127, 160}}
    \cup {<<108, 111, 99, 107>>}

RECURSIVE Concatenations(_)
Concatenations(n) ==
    IF n = 0 THEN {<<>>}
    ELSE Concatenations(n - 1)
         \cup {s \o f : s \in Concatenations(n - 1), f \in Fragments}

\* the class \s of Go's regexp: tab, newline, form feed, carriage return, space
WhiteSpace == {9, 10, 12, 13, 32}

\* the class [/\\\s\x00-\x1f\x7f~^:?*\[] of invalidCharsPattern
invalidChars == {47, 92} \cup WhiteSpace \cup (0..31) \cup {127} \cup {126, 94, 58, 63, 42, 91}

MatchIndexes(t) == {i \in 1..Len(t) : t[i] \in invalidChars}

FindStringRightmost(t) ==
    IF MatchIndexes(t) = {} THEN <<>>
    ELSE <<t[CHOOSE i \in MatchIndexes(t) : \A j \in MatchIndexes(t) : j <= i]>>

\* invalidCharsPattern.FindString: the leftmost match, "" when there is none
FindString(t) ==
    IF MatchIndexes(t) = {} THEN <<>>
    ELSE <<t[CHOOSE i \in MatchIndexes(t) : \A j \in MatchIndexes(t) : i <= j]>>

\* strings.Contains, strings.HasPrefix, strings.HasSuffix
Contains(t, sub) ==
    \E i \in 0..(Len(t) - Len(sub)) : SubSeq(t, i + 1, i + Len(sub)) = sub

HasPrefix(t, p) == Len(t) >= Len(p) /\ SubSeq(t, 1, Len(p)) = p

HasSuffix(t, p) == Len(t) >= Len(p) /\ SubSeq(t, Len(t) - Len(p) + 1, Len(t)) = p

\* the error of validateTaskID: its format string and what %s stands for
TaskIDError(msg, arg) == <<msg, arg>>

\* the error for the matched character (main.go:175-185)
MatchError(match) ==
    IF match = <<47>> THEN TaskIDError("TASK-ID cannot contain forward slash (/)", <<>>)
    ELSE IF match = <<92>> THEN TaskIDError("TASK-ID cannot contain backslash (\\)", <<>>)
    ELSE IF match = <<32>> THEN TaskIDError("TASK-ID cannot contain spaces", <<>>)
    ELSE IF match[1] < 32 \/ match[1] = 127
         THEN TaskIDError("TASK-ID cannot contain control characters", <<>>)
    ELSE TaskIDError("TASK-ID cannot contain '%s'", match)

\* validateTaskID(taskID): <<>> is nil
validateTaskID(t) ==
    IF t = <<>> THEN TaskIDError("TASK-ID cannot be empty", <<>>)
    ELSE IF FindString(t) # <<>> THEN MatchError(FindString(t))
    ELSE IF Contains(t, <<46, 46>>)
         THEN TaskIDError("TASK-ID cannot contain double dots (..)", <<>>)
    ELSE IF Contains(t, <<64, 123>>) THEN TaskIDError("TASK-ID cannot contain @{", <<>>)
    ELSE IF HasPrefix(t, <<46>>) THEN TaskIDError("TASK-ID cannot start with a dot", <<>>)
    ELSE IF HasSuffix(t, <<46, 108, 111, 99, 107>>)
         THEN TaskIDError("TASK-ID cannot end with .lock", <<>>)
    ELSE <<>>

VARIABLES
    taskID,      \* the TASK-ID validateTaskID is called with
    verr,        \* what validateTaskID returned, NotValidated before the call
    cmdline      \* os.Args[1:] of the giverny the operator starts

taskVars == <<taskID, verr, cmdline>>

NotValidated == TaskIDError("not called", <<>>)

\* one call of validateTaskID(config.TaskID) (main.go:99)
CallValidateTaskID ==
    /\ verr = NotValidated
    /\ verr' = validateTaskID(taskID)
    /\ UNCHANGED <<taskID, cmdline>>

\* ---------------------------------------------------------------------
\* The names of one run and the command line of the innie
\* ---------------------------------------------------------------------
\* fmt.Sprintf("giverny/%s", config.TaskID)
branchName(t) == <<103, 105, 118, 101, 114, 110, 121, 47>> \o t

\* fmt.Sprintf("giverny-%s", taskID)
containerName(t) == <<103, 105, 118, 101, 114, 110, 121, 45>> \o t

\* branchName + "-START"
startLabel(b) == b \o <<45, 83, 84, 65, 82, 84>>

\* the name GetBranchCommitRange looks up first: branchName + "-START"
\* (branch.go:63)
resolverStartLabel(b) == b \o <<45, 83, 84, 65, 82, 84>>

\* fmt.Sprintf("Please work on %s.", config.TaskID)
defaultPrompt(t) ==
    <<80, 108, 101, 97, 115, 101, 32, 119, 111, 114, 107, 32, 111, 110, 32>> \o t \o <<46>>

\* %d, and the decimal number of a flag value
RECURSIVE Itoa(_)
Itoa(n) == IF n < 10 THEN <<48 + n>> ELSE Itoa(n \div 10) \o <<48 + (n % 10)>>

RECURSIVE Atoi(_)
Atoi(s) == IF s = <<>> THEN 0 ELSE Atoi(SubSeq(s, 1, Len(s) - 1)) * 10 + (s[Len(s)] - 48)

IsNumber(s) == s # <<>> /\ \A i \in DOMAIN s : s[i] \in 48..57

\* "--innie", "--debug", "--git-server-port="
innieFlag == <<45, 45, 105, 110, 110, 105, 101>>

debugFlag == <<45, 45, 100, 101, 98, 117, 103>>

portFlag == <<45, 45, 103, 105, 116, 45, 115, 101, 114, 118, 101, 114, 45, 112, 111, 114, 116, 61>>

\* the arguments docker.RunContainer gives the giverny of the container
\* (container.go:133-145), --agent-args being empty
innieArgs(t, prompt, p, debug) ==
    <<innieFlag, portFlag \o Itoa(p)>>
    \o (IF debug THEN <<debugFlag>> ELSE <<>>)
    \o <<t, prompt>>

\* the flags and positional arguments cobra has parsed so far
NoFlags == [IsInnie |-> FALSE, Debug |-> FALSE, GitServerPort |-> 0, args |-> <<>>, err |-> ""]

\* cobra's parsing of the command line: an argument that starts with '-' is a
\* flag wherever it stands, "--" ends the flags, anything else is positional.
\* Of the flags of main.go:142-153 the innie is given --innie, --debug and
\* --git-server-port=N
RECURSIVE ParseFlags(_, _)
ParseFlags(argv, acc) ==
    IF argv = <<>> \/ acc.err # "" THEN acc
    ELSE LET tok == Head(argv)
         IN IF tok = <<45, 45>> THEN [acc EXCEPT !.args = acc.args \o Tail(argv)]
            ELSE IF Len(tok) >= 2 /\ tok[1] = 45
            THEN IF tok = innieFlag
                 THEN ParseFlags(Tail(argv), [acc EXCEPT !.IsInnie = TRUE])
                 ELSE IF tok = debugFlag
                 THEN ParseFlags(Tail(argv), [acc EXCEPT !.Debug = TRUE])
                 ELSE IF HasPrefix(tok, portFlag)
                         /\ IsNumber(SubSeq(tok, Len(portFlag) + 1, Len(tok)))
                 THEN ParseFlags(Tail(argv),
                         [acc EXCEPT !.GitServerPort =
                                        Atoi(SubSeq(tok, Len(portFlag) + 1, Len(tok)))])
                 ELSE [acc EXCEPT !.err = "unknown flag"]
            ELSE ParseFlags(Tail(argv), [acc EXCEPT !.args = Append(acc.args, tok)])

\* innie.Config
InnieConfig(t, prompt, p, debug) ==
    [TaskID |-> t, Prompt |-> prompt, GitServerPort |-> p, Debug |-> debug]

NoConfig == InnieConfig(<<>>, <<>>, 0, FALSE)

mainErrorNoPortCheck(f) ==
    IF f.err # "" THEN f.err
    ELSE IF Len(f.args) > 2 THEN "accepts between 0 and 2 arg(s)"
    ELSE IF Len(f.args) < 1 THEN "TASK-ID is required"
    ELSE IF validateTaskID(f.args[1]) # <<>> THEN "invalid TASK-ID"
    ELSE ""

\* what main does with the parsed command line before it calls innie.Run
\* (main.go:84-114): the error it exits with, "" for none
mainError(f) ==
    IF f.err # "" THEN f.err
    ELSE IF Len(f.args) > 2 THEN "accepts between 0 and 2 arg(s)"
    ELSE IF Len(f.args) < 1 THEN "TASK-ID is required"
    ELSE IF validateTaskID(f.args[1]) # <<>> THEN "invalid TASK-ID"
    ELSE IF f.IsInnie /\ f.GitServerPort = 0
         THEN "--git-server-port is required when --innie is set"
    ELSE ""

\* the innie.Config main builds (main.go:96-123)
mainConfig(f) ==
    InnieConfig(f.args[1],
                IF Len(f.args) >= 2 THEN f.args[2] ELSE defaultPrompt(f.args[1]),
                f.GitServerPort, f.Debug)

\* the TASK-IDs of the runs: "t1" and "--debug"
TaskIDs == {<<116, 49>>, debugFlag}

\* the prompt main gives the outie: the default, or the PROMPT argument "fix"
Prompts(t) == {defaultPrompt(t), <<102, 105, 120>>}

\* ---------------------------------------------------------------------
\* State of one task run: the outie (outie.Run) on the host and the innie
\* (innie.Run) inside the container the outie starts
\* ---------------------------------------------------------------------
VARIABLES
    cfg,         \* outie.Config and the environment: TaskID, Prompt, Debug,
                 \* AllowDirty, ExistingBranch, Token
    dockerOps,   \* dockerops.DockerOps in use: "real" or "mock"
    pc,          \* position inside outie.Run
    hostDirty,   \* the host workspace has uncommitted changes
    hostBranch,  \* giverny/<TASK-ID> in the host repository: exists, tip,
                 \* checkedOut (HEAD is on it)
    calls,       \* the collaborators outie.Run has called, in order
    result,      \* what outie.Run returns
    serverCmd,   \* serverCmd of outie.Run
    gitPort,     \* gitPort of outie.Run
    serverUp,    \* the daemon of serverCmd is running
    deferred,    \* the deferred StopServer is registered
    stopLog,     \* the handles StopServer was called with by outie.Run
    container,   \* giverny-<TASK-ID>: none, present, removed
    rc,          \* what RunContainer returned: exit code and error
    printed,     \* the instructions printed at the end
    shown,       \* the commit hashes the instructions show
    warnings,    \* the warnings Run has printed
    ipc,         \* position inside innie.Run / PostClaudeMenu
    innieErr,    \* what innie.Run returns ("" is nil)
    wsDirty,     \* the isolated workspace /app has uncommitted changes
    ahead,       \* commits on the task branch in /app beyond the checkout
    dirty,       \* the variable dirty of PostClaudeMenu
    fresh,       \* no workspace-changing action since a clean dirty query
    innieCfg,    \* the innie.Config of the innie
    marker,      \* the ref <task-branch>-START: app, the commit of /app it
                 \* points to (counted from the checkout, NoCommit if
                 \* the ref is absent), host, the host repository has it
    icalls,      \* the steps innie.Run has taken, each with its argument
    choice,      \* the last choice PostClaudeMenu read
    menuOut,     \* what PostClaudeMenu printed on that choice
    eof          \* the input of the menu is exhausted: every further read fails

outieVars == <<cfg, dockerOps, pc, hostDirty, hostBranch, calls, result, serverCmd,
               gitPort, serverUp, deferred, stopLog, container, rc, printed, shown,
               warnings>>
innieVars == <<ipc, innieErr, wsDirty, ahead, dirty, fresh, innieCfg, marker, icalls,
              choice, menuOut, eof>>

NoCommit == 0 - 1
NoMarker == [app |-> NoCommit, host |-> FALSE]
vars == <<serverVars, outieVars, innieVars, rangeVars, taskVars>>

\* commits the worker makes in one task run
MaxCommits == 2

\* an error value: its message, the error it wraps ("" for none), and the
\* exit codes its text shows
Err(kind, cause, codes) == [kind |-> kind, cause |-> cause, codes |-> codes]
Pending == Err("pending", "", {})
Ok == Err("", "", {})
NoHandle == [nil |-> TRUE, ActualPid |-> 0]
NoRc == [code |-> 0, err |-> ""]

\* ---------------------------------------------------------------------
\* outie.Run (src/unnamed/part_011:27-173)
\* ---------------------------------------------------------------------
\* a return statement: the deferred functions run before Run is left
Return(res) ==
    /\ result' = res
    /\ pc' = "unwind"

Call(name) == calls' = Append(calls, name)

WrapDropsCause(phase, cause) == Err(phase, "", {})

\* fmt.Errorf("<phase>: %w", err) (part_011:79, 87, 101)
Wrap(phase, cause) == Err(phase, cause, {})

\* title, project root and token (part_011:28-51)
RunEnter ==
    /\ pc = "start"
    /\ \/ Return(Err("failed to find project root", "no .git directory", {}))
       \/ Return(Err("failed to change to project root", "chdir", {}))
       \/ /\ ~cfg.Token
          /\ Return(Err("CLAUDE_CODE_OAUTH_TOKEN environment variable is not set", "", {}))
       \/ /\ cfg.Token
          /\ pc' = "dirty"
          /\ UNCHANGED result
    /\ UNCHANGED <<cfg, dockerOps, hostDirty, hostBranch, calls, serverCmd, gitPort,
                   serverUp, deferred, stopLog, container, rc, printed, shown, warnings>>
    /\ UNCHANGED innieVars

NeedsDirtyCheckIgnoresExisting(c) == ~c.AllowDirty

\* the condition of the dirty gate (part_011:54)
NeedsDirtyCheck(c) == ~c.AllowDirty /\ ~c.ExistingBranch

\* the dirty gate (part_011:53-62)
RunDirtyGate ==
    /\ pc = "dirty"
    /\ IF NeedsDirtyCheck(cfg)
       THEN /\ Call("IsWorkspaceDirty")
            /\ \/ Return(Err("failed to check workspace status", "git status", {}))
               \/ /\ hostDirty
                  /\ Return(Err("working directory has uncommitted changes", "", {}))
               \/ /\ ~hostDirty
                  /\ pc' = "branch"
                  /\ UNCHANGED result
       ELSE /\ pc' = "branch"
            /\ UNCHANGED <<calls, result>>
    /\ UNCHANGED <<cfg, dockerOps, hostDirty, hostBranch, serverCmd, gitPort,
                   serverUp, deferred, stopLog, container, rc, printed, shown, warnings>>
    /\ UNCHANGED innieVars

ValidatesExistingNever(c) == FALSE

\* the branch is validated, not created, in existing-branch mode (part_011:66)
ValidatesExisting(c) == c.ExistingBranch

\* `git branch <name>` in the host repository (branch.go:13-14): what it
\* prints, whether it exited with 0, and the task branch afterwards. It
\* refuses a name that is taken, creates the branch at HEAD without moving
\* HEAD otherwise, and can fail for other reasons in either case
gitBranch(h) ==
    {[ok |-> FALSE, output |-> <<"fatal:", "not", "a", "git", "repository">>, branch |-> h]}
    \cup IF h.exists
         THEN {[ok |-> FALSE,
                output |-> <<"fatal:", "a", "branch", "named", "giverny/<TASK-ID>",
                             "already", "exists">>,
                branch |-> h]}
         ELSE {[ok |-> TRUE, output |-> <<>>,
                branch |-> [h EXCEPT !.exists = TRUE, !.tip = 0]]}

CreateBranchAlwaysExists(o) ==
    IF ~o.ok THEN "already exists" ELSE ""

\* the error of git.CreateBranch for that outcome (branch.go:16-24), "" for nil
CreateBranch(o) ==
    IF ~o.ok
    THEN IF Contains(o.output, <<"already", "exists">>)
         THEN "already exists"
         ELSE "git branch"
    ELSE ""

\* create or validate the task branch (part_011:64-82)
RunBranch ==
    /\ pc = "branch"
    /\ IF ValidatesExisting(cfg)
       THEN /\ Call("BranchExists")
            /\ \/ Return(Err("failed to check if branch exists", "git rev-parse", {}))
               \/ /\ ~hostBranch.exists
                  /\ Return(Err("branch does not exist", "", {}))
               \/ /\ hostBranch.exists
                  /\ pc' = "server"
                  /\ UNCHANGED result
            /\ UNCHANGED hostBranch
       ELSE /\ Call("CreateBranch")
            /\ \E o \in gitBranch(hostBranch) :
                  /\ hostBranch' = o.branch
                  /\ IF CreateBranch(o) # ""
                     THEN Return(Wrap("failed to create branch", CreateBranch(o)))
                     ELSE pc' = "server" /\ UNCHANGED result
    /\ UNCHANGED <<cfg, dockerOps, hostDirty, serverCmd, gitPort,
                   serverUp, deferred, stopLog, container, rc, printed, shown, warnings>>
    /\ UNCHANGED innieVars

\* start the git server and register its stop (part_011:84-94). StartServer
\* returns (nil, 0, err), or a handle and its port; the daemon of the handle
\* may already have ended when StartServer returns
RunStartServer ==
    /\ pc = "server"
    /\ Call("StartServer")
    /\ \/ /\ Return(Wrap("failed to start git server", "after 10 attempts"))
          /\ UNCHANGED <<serverCmd, gitPort, serverUp, deferred>>
       \/ \E p \in Pids, q \in Ports, up \in BOOLEAN :
            /\ serverCmd' = [nil |-> FALSE, ActualPid |-> p]
            /\ gitPort' = q
            /\ serverUp' = up
            /\ deferred' = TRUE
            /\ pc' = "build"
            /\ UNCHANGED result
    /\ UNCHANGED <<cfg, dockerOps, hostDirty, hostBranch, stopLog, container, rc, printed, shown, warnings>>
    /\ UNCHANGED innieVars

\* build the image (part_011:99-102)
RunBuildImage ==
    /\ pc = "build"
    /\ Call("BuildImage")
    /\ \/ Return(Wrap("failed to build image", "docker build"))
       \/ /\ pc' = "run"
          /\ UNCHANGED result
    /\ UNCHANGED <<cfg, dockerOps, hostDirty, hostBranch, serverCmd, gitPort,
                   serverUp, deferred, stopLog, container, rc, printed, shown, warnings>>
    /\ UNCHANGED innieVars

\* giverny ends with os.Exit(1) when innie.Run returns an error (cmd/giverny/main.go:157-159)
InnieExitCode(e) == IF e = "" THEN 0 ELSE 1

\* exit codes of "docker run" when the innie did not run to its end: docker
\* could not run the container, the container was killed
OtherExitCodes == {125, 137}

\* main of the giverny in the container (cmd/giverny/main.go:84-125): it
\* exits with an error, or calls innie.Run with the configuration it parsed
InnieStart(f) ==
    IF mainError(f) # ""
    THEN /\ innieErr' = mainError(f)
         /\ ipc' = "exit"
         /\ UNCHANGED innieCfg
    ELSE /\ innieCfg' = mainConfig(f)
         /\ ipc' = "clone"
         /\ UNCHANGED innieErr

\* docker.RunContainer (internal/docker/container.go:96-166) is entered: it
\* fails before or at "docker run" with (0, err), or "docker run" ends
\* without the innie having run to its end, or the container runs the innie
RunContainerCall ==
    /\ pc = "run"
    /\ dockerOps = "real"
    /\ Call("RunContainer")
    /\ \/ /\ \E err \in {"failed to get home directory", "failed to run container"} :
                 rc' = [code |-> 0, err |-> err]
          /\ pc' = "after"
          /\ UNCHANGED <<container, ipc, innieErr, innieCfg>>
       \/ /\ \E code \in OtherExitCodes : rc' = [code |-> code, err |-> ""]
          /\ container' = "present"
          /\ pc' = "after"
          /\ UNCHANGED <<ipc, innieErr, innieCfg>>
       \/ /\ container' = "present"
          /\ InnieStart(ParseFlags(innieArgs(cfg.TaskID, cfg.Prompt, gitPort, cfg.Debug),
                                   NoFlags))
          /\ pc' = "container"
          /\ UNCHANGED rc
    /\ UNCHANGED <<cfg, dockerOps, hostDirty, hostBranch, result, serverCmd, gitPort,
                   serverUp, deferred, stopLog, printed, shown, warnings>>
    /\ UNCHANGED <<wsDirty, ahead, marker, dirty, fresh, icalls, choice, menuOut, eof>>

\* MockDockerOps.RunContainer (internal/dockerops/mock.go:32-34) returns the
\* pair its RunContainerFunc returns: any exit code with any error
MockRunContainer ==
    /\ pc = "run"
    /\ dockerOps = "mock"
    /\ Call("RunContainer")
    /\ \E code \in {0, 1}, err \in {"", "mock error"} :
         rc' = [code |-> code, err |-> err]
    /\ container' = "present"
    /\ pc' = "after"
    /\ UNCHANGED <<cfg, dockerOps, hostDirty, hostBranch, result, serverCmd, gitPort,
                   serverUp, deferred, stopLog, printed, shown, warnings>>
    /\ UNCHANGED innieVars

\* the innie has ended: cmd.Run returns and RunContainer returns the exit
\* code with a nil error (container.go:156-165)
RunContainerReturn ==
    /\ pc = "container"
    /\ ipc = "exit"
    /\ rc' = [code |-> InnieExitCode(innieErr), err |-> ""]
    /\ pc' = "after"
    /\ UNCHANGED <<cfg, dockerOps, hostDirty, hostBranch, calls, result, serverCmd, gitPort,
                   serverUp, deferred, stopLog, container, printed, shown, warnings>>
    /\ UNCHANGED innieVars

ContainerFailedOnErrorOnly(r) == r.err # ""

\* the failure test after the container (part_011:119)
ContainerFailed(r) == r.err # "" \/ r.code # 0

\* the error Run returns on a worker failure (part_011:131-134)
ContainerError(r) ==
    IF r.err # "" THEN Err("container failed", r.err, {})
    ELSE Err("container exited with code", "", {r.code})

\* post-container cleanup (part_011:116-144)
RunAfterContainer ==
    /\ pc = "after"
    /\ IF ContainerFailed(rc)
       THEN /\ Return(ContainerError(rc))
            /\ UNCHANGED <<calls, container, warnings>>
       ELSE /\ Call("RemoveContainer")
            /\ \/ /\ container' = "removed"
                  /\ UNCHANGED warnings
               \/ /\ warnings' = warnings \cup {"failed to remove container"}
                  /\ UNCHANGED container
            /\ pc' = "range"
            /\ UNCHANGED result
    /\ UNCHANGED <<cfg, dockerOps, hostDirty, hostBranch, serverCmd, gitPort,
                   serverUp, deferred, stopLog, rc, printed, shown>>
    /\ UNCHANGED innieVars


GetShortHashNoFallback(fullHash, ok) == IF ok THEN <<"short", fullHash[2]>> ELSE <<>>

\* git.GetShortHash (internal/git/branch.go:135-143): the short form, or the
\* full hash when "git rev-parse --short" fails
GetShortHash(fullHash, ok) == IF ok THEN <<"short", fullHash[2]>> ELSE fullHash

ShortHashCallsSwapped == <<"GetShortHash(last)", "GetShortHash(first)">>

\* the two hashes are shortened first, then last (part_011:156-157)
ShortHashCalls == <<"GetShortHash(first)", "GetShortHash(last)">>

InstructionsAlwaysRange(branch, r, ok1, ok2) ==
    IF r.err # "" THEN <<>>
    ELSE IF r.first # <<>> /\ r.last # <<>>
    THEN <<<<"git merge --ff-only %s", branch>>,
           <<"git cherry-pick %s^..%s", GetShortHash(r.first, ok1), GetShortHash(r.last, ok2)>>,
           <<"git branch -D %s", branch>>>>
    ELSE <<>>

\* the commands Run prints for the range r of the task branch
\* (part_011:148-170), each with its format and arguments; ok1 and ok2 tell
\* whether git could shorten the first and the last hash
Instructions(branch, r, ok1, ok2) ==
    IF r.err # "" THEN <<>>
    ELSE IF r.first # <<>> /\ r.last # <<>>
    THEN <<<<"git merge --ff-only %s", branch>>,
           IF r.first = r.last
           THEN <<"git cherry-pick %s", GetShortHash(r.first, ok1)>>
           ELSE <<"git cherry-pick %s^..%s",
                  GetShortHash(r.first, ok1), GetShortHash(r.last, ok2)>>,
           <<"git branch -D %s", branch>>>>
    ELSE <<>>

\* Run prints the instructions for the range it was given (part_011:147-170)
PrintInstructions ==
    /\ range # NoRange
    /\ instr = NotPrinted
    /\ \E ok1, ok2 \in BOOLEAN :
          instr' = Instructions(branchName(cfg.TaskID), range, ok1, ok2)
    /\ UNCHANGED <<repo, range>>

\* commit range and instructions (part_011:146-172). GetBranchCommitRange
\* fails, or reports no commits, one commit or several commits
RunCommitRange ==
    /\ pc = "range"
    /\ \/ /\ Call("GetBranchCommitRange")
          /\ warnings' = warnings \cup {"failed to get commit range"}
          /\ UNCHANGED <<printed, shown>>
       \/ /\ hostBranch.tip = 0
          /\ Call("GetBranchCommitRange")
          /\ UNCHANGED <<printed, shown, warnings>>
       \/ /\ hostBranch.tip = 1
          /\ calls' = calls \o <<"GetBranchCommitRange">> \o ShortHashCalls
          /\ printed' = "merge, cherry-pick one"
          /\ \E ok \in BOOLEAN : shown' = <<GetShortHash(FullHash(1), ok)>>
          /\ UNCHANGED warnings
       \/ /\ hostBranch.tip > 1
          /\ calls' = calls \o <<"GetBranchCommitRange">> \o ShortHashCalls
          /\ printed' = "merge, cherry-pick range"
          /\ \E ok1, ok2 \in BOOLEAN :
               shown' = <<GetShortHash(FullHash(1), ok1),
                          GetShortHash(FullHash(hostBranch.tip), ok2)>>
          /\ UNCHANGED warnings
    /\ Return(Ok)
    /\ UNCHANGED <<cfg, dockerOps, hostDirty, hostBranch, serverCmd, gitPort,
                   serverUp, deferred, stopLog, container, rc>>
    /\ UNCHANGED innieVars

RunsDeferredStopOnSuccessOnly(d, res) == d /\ res = Ok

RunsDeferredStopOnFailureOnly(d, res) == d /\ res # Ok

\* the StopServer that Run defers once StartServer has succeeded runs on
\* every return after that point (part_011:90-94)
RunsDeferredStop(d, res) == d

branchLeftDeletedOnFailure(h, res) ==
    IF res # Ok THEN [h EXCEPT !.exists = FALSE, !.tip = 0] ELSE h

\* the task branch when Run returns: no return path of Run removes it, the
\* only "git branch -D" is the instruction printed for the operator
\* (part_011:119-135, 168-172)
branchLeft(h, res) == h

\* Run is left: the deferred StopServer(serverCmd) runs; its error is only a
\* warning (part_011:90-94)
RunUnwind ==
    /\ pc = "unwind"
    /\ IF RunsDeferredStop(deferred, result)
       THEN /\ Call("StopServer")
            /\ stopLog' = Append(stopLog, serverCmd)
            /\ \/ /\ serverUp' = FALSE
                  /\ UNCHANGED warnings
               \/ /\ warnings' = warnings \cup {"failed to stop git server"}
                  /\ UNCHANGED serverUp
       ELSE UNCHANGED <<calls, stopLog, serverUp, warnings>>
    /\ hostBranch' = branchLeft(hostBranch, result)
    /\ pc' = "done"
    /\ UNCHANGED <<cfg, dockerOps, hostDirty, result, serverCmd, gitPort,
                   deferred, container, rc, printed, shown>>
    /\ UNCHANGED innieVars

\* ---------------------------------------------------------------------
\* innie.Run (internal/innie/innie.go:363-429)
\* ---------------------------------------------------------------------
InnieFail(e) ==
    /\ innieErr' = e
    /\ ipc' = "exit"

\* what a run of the worker, or of a shell, can do to /app: leave it clean
\* or dirty, and add a commit
WorkerEffect ==
    /\ wsDirty' \in BOOLEAN
    /\ ahead' \in {ahead, IF ahead < MaxCommits THEN ahead + 1 ELSE ahead}
    /\ fresh' = FALSE
    /\ marker' = marker

ICall(name, arg) == icalls' = Append(icalls, <<name, arg>>)

\* git.CloneRepo (innie.go:374-376): needs the daemon
InnieClone ==
    /\ ipc = "clone"
    /\ ICall("CloneRepo", <<innieCfg.GitServerPort>>)
    /\ \/ InnieFail("failed to clone repository")
       \/ /\ serverUp
          /\ ipc' = "setup"
          /\ UNCHANGED innieErr
    /\ UNCHANGED <<wsDirty, ahead, marker, dirty, fresh, innieCfg, choice, menuOut, eof>>
    /\ UNCHANGED outieVars

\* git.SetupWorkspace (innie.go:392-396), first half: mkdir /app, then
\* git -C /git worktree add /app <branch>
SetupWorkspaceCheckout ==
    /\ ipc = "setup"
    /\ \/ /\ InnieFail("failed to setup workspace")
          /\ UNCHANGED icalls
       \/ /\ ICall("worktree add", branchName(innieCfg.TaskID))
          /\ \/ InnieFail("failed to setup workspace")
             \/ /\ ipc' = "start"
                /\ UNCHANGED innieErr
    /\ UNCHANGED <<wsDirty, ahead, marker, dirty, fresh, innieCfg, choice, menuOut, eof>>
    /\ UNCHANGED outieVars

\* git -C /app branch <branch>-START (git_server_test.go:402-405): the ref
\* is created at the HEAD of /app
createStart(m, head) == [m EXCEPT !.app = head]

\* git.SetupWorkspace, second half: git config, then
\* git -C /app branch <branch>-START; then chdir (innie.go:399-401)
SetupWorkspaceStart ==
    /\ ipc = "start"
    /\ \/ /\ InnieFail("failed to setup workspace")
          /\ UNCHANGED <<icalls, marker>>
       \/ /\ ICall("branch START", startLabel(branchName(innieCfg.TaskID)))
          /\ \/ /\ InnieFail("failed to setup workspace")
                /\ UNCHANGED marker
             \/ /\ marker' = createStart(marker, ahead)
                /\ \/ InnieFail("failed to change to /app directory")
                   \/ /\ ipc' = "claude"
                      /\ UNCHANGED innieErr
    /\ UNCHANGED <<wsDirty, ahead, dirty, fresh, innieCfg, choice, menuOut, eof>>
    /\ UNCHANGED outieVars

afterClaudeAlwaysMenu(err) == "menu"

\* where innie.Run goes when executeClaude returns err (innie.go:409-421)
afterClaude(err) == IF err = "" THEN "menu" ELSE "exit"

\* executeClaude with the prompt (innie.go:409-412)
InnieClaude ==
    /\ ipc = "claude"
    /\ ICall("executeClaude", innieCfg.Prompt)
    /\ WorkerEffect
    /\ \E err \in {"", "exit status 1"} :
          /\ ipc' = afterClaude(err)
          /\ innieErr' = IF err = "" THEN innieErr ELSE "failed to execute Claude"
    /\ UNCHANGED <<dirty, innieCfg, choice, menuOut, eof>>
    /\ UNCHANGED outieVars

\* ---------------------------------------------------------------------
\* interactive.PostClaudeMenu (src/unnamed/part_004:95-150)
\* ---------------------------------------------------------------------
\* the menu returned nil or an error to innie.Run (innie.go:419-421)
MenuReturn(e) ==
    IF e = "" THEN ipc' = "push" /\ UNCHANGED innieErr
    ELSE InnieFail("menu error")

\* top of the loop: git.IsWorkspaceDirty (part_004:101-105)
MenuQuery ==
    /\ ipc = "menu"
    /\ icalls' = IF \E i \in DOMAIN icalls : icalls[i][1] = "PostClaudeMenu" THEN icalls
                 ELSE Append(icalls, <<"PostClaudeMenu", <<>>>>)
    /\ \/ /\ MenuReturn("failed to check workspace status")
          /\ UNCHANGED <<dirty, fresh>>
       \/ /\ dirty' = wsDirty
          /\ fresh' = ~wsDirty
          /\ ipc' = "choice"
          /\ UNCHANGED innieErr
    /\ UNCHANGED <<wsDirty, ahead, marker, innieCfg, choice, menuOut, eof>>
    /\ UNCHANGED outieVars

Choices == {"c", "d", "s", "r", "x", ""}

ExitAllowedAlways(d) == TRUE

\* exit is allowed only with a clean workspace (part_004:141)
ExitAllowed(d) == ~d

\* fmt.Fscanln(reader, &choice) with its error dropped (part_004:119-120):
\* a line gives its word, an empty line gives "", and at the end of the input
\* (e) or on a read error the call fails and choice stays ""
Fscanln(e) ==
    {[choice |-> "", eof |-> TRUE]}
        \cup (IF e THEN {} ELSE {[choice |-> c, eof |-> FALSE] : c \in Choices})

\* the choice read from the input and its case of the switch (part_004:119-148)
MenuChoice(c) ==
    /\ ipc = "choice"
    /\ \E r \in Fscanln(eof) : r.choice = c /\ eof' = r.eof
    /\ choice' = c
    /\ CASE c \in {"c", "r"} ->
            \* return executeClaude(...): the menu ends with Claude's result
            /\ WorkerEffect
            /\ \E e \in {"", "Claude exited with error"} : MenuReturn(e)
            /\ menuOut' = ""
         [] c = "d" ->
            \* runDiffreviewer: it fails or finds no notes, or Claude fixes the notes
            /\ \/ UNCHANGED <<wsDirty, ahead, marker, fresh>>
               \/ WorkerEffect
            /\ ipc' = "menu"
            /\ menuOut' = ""
            /\ UNCHANGED innieErr
         [] c = "s" ->
            /\ WorkerEffect
            /\ ipc' = "menu"
            /\ menuOut' = ""
            /\ UNCHANGED innieErr
         [] c = "x" ->
            /\ IF ExitAllowed(dirty)
               THEN MenuReturn("") /\ menuOut' = ""
               ELSE /\ ipc' = "menu"
                    /\ menuOut' = "Cannot exit with uncommitted changes"
                    /\ UNCHANGED innieErr
            /\ UNCHANGED <<wsDirty, ahead, marker, fresh>>
         [] OTHER ->
            /\ ipc' = "menu"
            /\ menuOut' = "Invalid choice"
            /\ UNCHANGED <<innieErr, wsDirty, ahead, marker, fresh>>
    /\ dirty' = FALSE
    /\ UNCHANGED <<innieCfg, icalls>>
    /\ UNCHANGED outieVars

pushedRefsWithStart(b) == {b, startLabel(b)}

\* the refs "git push <url> <branch>" sends to the host repository
\* (git_server_test.go:424-433)
pushedRefs(b) == {b}

\* git.PushBranch (innie.go:424-426): needs the daemon; the task branch of the
\* host repository moves to the tip of /app
InniePush ==
    /\ ipc = "push"
    /\ ICall("PushBranch", branchName(innieCfg.TaskID))
    /\ \/ /\ InnieFail("failed to push branch")
          /\ UNCHANGED <<hostBranch, marker>>
       \/ /\ serverUp
          /\ marker' = [marker EXCEPT !.host =
                           \/ marker.host
                           \/ /\ marker.app # NoCommit
                              /\ startLabel(branchName(innieCfg.TaskID))
                                    \in pushedRefs(branchName(innieCfg.TaskID))]
          /\ hostBranch' = IF branchName(innieCfg.TaskID) = branchName(cfg.TaskID)
                           THEN [hostBranch EXCEPT !.tip = hostBranch.tip + ahead]
                           ELSE hostBranch
          /\ ipc' = "exit"
          /\ UNCHANGED innieErr
    /\ UNCHANGED <<wsDirty, ahead, dirty, fresh, innieCfg, choice, menuOut, eof>>
    /\ UNCHANGED <<cfg, dockerOps, pc, hostDirty, calls, result, serverCmd,
                   gitPort, serverUp, deferred, stopLog, container, rc, printed, shown, warnings>>

\* ---------------------------------------------------------------------
\* main (cmd/giverny/main.go:79-160)
\* ---------------------------------------------------------------------
\* the command lines an operator starts giverny with: a TASK-ID "t1" with
\* and without the prompt "fix" and --debug, the TASK-ID "--debug" after
\* "--", no TASK-ID, the TASK-ID "a/b", three arguments, an unknown flag
\* "-x", and --innie with --git-server-port=2001, without it, and with
\* --git-server-port=0
CommandLines ==
    LET t1 == <<116, 49>>
        fix == <<102, 105, 120>>
    IN {<<t1>>, <<t1, fix>>, <<debugFlag, t1>>, <<<<45, 45>>, debugFlag, fix>>,
        <<>>, <<<<97, 47, 98>>>>, <<t1, fix, fix>>, <<<<45, 120>>, t1>>,
        <<innieFlag, portFlag \o Itoa(minPort), t1>>, <<innieFlag, t1>>,
        <<innieFlag, portFlag \o Itoa(0), t1>>}

\* RunE of the root command: it returns an error before any workflow, or
\* calls innie.Run or outie.Run with the configuration of the command line
Main ==
    /\ pc = "main"
    /\ LET f == ParseFlags(cmdline, NoFlags)
       IN IF mainError(f) # ""
          THEN /\ result' = Err(mainError(f), "", {})
               /\ pc' = "done"
               /\ UNCHANGED <<cfg, ipc, innieCfg>>
          ELSE /\ cfg' = [cfg EXCEPT !.TaskID = mainConfig(f).TaskID,
                                     !.Prompt = mainConfig(f).Prompt,
                                     !.Debug = mainConfig(f).Debug]
               /\ IF f.IsInnie
                  THEN /\ innieCfg' = mainConfig(f)
                       /\ ipc' = "clone"
                       /\ pc' = "innie"
                  ELSE /\ pc' = "start"
                       /\ UNCHANGED <<ipc, innieCfg>>
               /\ UNCHANGED result
    /\ UNCHANGED <<dockerOps, hostDirty, hostBranch, calls, serverCmd, gitPort, serverUp,
                   deferred, stopLog, container, rc, printed, shown, warnings>>
    /\ UNCHANGED <<innieErr, wsDirty, ahead, marker, dirty, fresh, icalls, choice, menuOut, eof>>

\* innie.Run has returned to main (main.go:124)
MainInnieReturn ==
    /\ pc = "innie"
    /\ ipc = "exit"
    /\ result' = IF innieErr = "" THEN Ok ELSE Err(innieErr, "", {})
    /\ pc' = "done"
    /\ UNCHANGED <<cfg, dockerOps, hostDirty, hostBranch, calls, serverCmd, gitPort, serverUp,
                   deferred, stopLog, container, rc, printed, shown, warnings>>
    /\ UNCHANGED innieVars

\* ---------------------------------------------------------------------
\* Specifications
\* ---------------------------------------------------------------------
InitServer ==
    /\ srv = "idle"
    /\ attempt = 0
    /\ port = 0
    /\ lastErr = NoErr
    /\ pidFile = Absent
    /\ polls = 0
    /\ wrapper = "none"
    /\ cur = 0
    /\ procs = [p \in Pids |-> Free]
    /\ handle = Nil
    /\ retPort = 0
    /\ stop = "idle"
    /\ stopArg = Nil
    /\ stopHist = <<>>
    /\ signalled = "none"

\* Run and the innie before their first step
InitRunState ==
    /\ calls = <<>>
    /\ result = Pending
    /\ serverCmd = NoHandle
    /\ gitPort = 0
    /\ serverUp = FALSE
    /\ deferred = FALSE
    /\ stopLog = <<>>
    /\ container = "none"
    /\ rc = NoRc
    /\ printed = ""
    /\ shown = <<>>
    /\ warnings = {}
    /\ ipc = "idle"
    /\ innieErr = ""
    /\ wsDirty = FALSE
    /\ ahead = 0
    /\ marker = NoMarker
    /\ dirty = FALSE
    /\ fresh = FALSE
    /\ innieCfg = NoConfig
    /\ icalls = <<>>
    /\ choice = ""
    /\ menuOut = ""
    /\ eof = FALSE

InitRun ==
    /\ pc = "start"
    /\ InitRunState

\* a repository without commits and refs, and no call yet
NoRepo == [parents |-> [c \in RepoCommits |-> {}], refs |-> [n \in RefNames |-> 0]]

InitRange ==
    /\ repo = NoRepo
    /\ range = NoRange
    /\ instr = NotPrinted

InitTaskID ==
    /\ taskID = <<>>
    /\ verr = NotValidated
    /\ cmdline = <<>>

\* a task run: any flags, any state of the host workspace and of the branch
Init ==
    /\ InitServer
    /\ InitRange
    /\ InitTaskID
    /\ busyPorts = {}
    /\ InitRun
    /\ cfg \in [TaskID : TaskIDs, Prompt : UNION {Prompts(t) : t \in TaskIDs}, Debug : BOOLEAN,
                 AllowDirty : BOOLEAN, ExistingBranch : BOOLEAN, Token : BOOLEAN]
    /\ cfg.Prompt \in Prompts(cfg.TaskID)
    /\ validateTaskID(cfg.TaskID) = <<>>
    /\ dockerOps \in {"real", "mock"}
    /\ hostDirty \in BOOLEAN
    /\ hostBranch \in {[exists |-> FALSE, tip |-> 0, checkedOut |-> FALSE], [exists |-> TRUE, tip |-> 0, checkedOut |-> FALSE],
                       [exists |-> TRUE, tip |-> 1, checkedOut |-> FALSE]}

OutieStep ==
    \/ RunEnter
    \/ RunDirtyGate
    \/ RunBranch
    \/ RunStartServer
    \/ RunBuildImage
    \/ RunContainerCall
    \/ MockRunContainer
    \/ RunContainerReturn
    \/ RunAfterContainer
    \/ RunCommitRange
    \/ RunUnwind

InnieStep ==
    \/ InnieClone
    \/ SetupWorkspaceCheckout
    \/ SetupWorkspaceStart
    \/ InnieClaude
    \/ MenuQuery
    \/ \E c \in Choices : MenuChoice(c)
    \/ InniePush

Next == (OutieStep \/ InnieStep) /\ UNCHANGED <<serverVars, rangeVars, taskVars>>

Spec == Init /\ [][Next]_vars

\* the server test: any ports taken by other programs
InitTest ==
    /\ InitServer
    /\ InitRange
    /\ InitTaskID
    /\ busyPorts \in SUBSET Ports
    /\ InitRun
    /\ cfg = [TaskID |-> <<116, 49>>, Prompt |-> defaultPrompt(<<116, 49>>), Debug |-> FALSE,
              AllowDirty |-> FALSE, ExistingBranch |-> FALSE, Token |-> TRUE]
    /\ dockerOps = "real"
    /\ hostDirty = FALSE
    /\ hostBranch = [exists |-> FALSE, tip |-> 0, checkedOut |-> FALSE]

ServerStep ==
    \/ tryStartServerBegin
    \/ pollForPidFileSleep
    \/ pollForPidFileFound
    \/ pollForPidFileTimeout
    \/ StartServerFail
    \/ \E p \in Pids : DaemonWritePartial(p)
    \/ \E p \in Pids : DaemonWritePid(p)
    \/ \E p \in Pids : DaemonBind(p)
    \/ \E p \in Pids : DaemonDie(p)
    \/ WrapperExit
    \/ \E k \in {"other", "foreign"} : PidReuse(k)

StopStep ==
    \/ StopServerNil
    \/ StopServerKill
    \/ StopServerWait

NextServer ==
    /\ \/ TestStart
       \/ \E h \in {Nil, handle} : TestStop(h)
       \/ (ServerStep /\ UNCHANGED stopVars)
       \/ StopStep
    /\ UNCHANGED <<outieVars, innieVars, rangeVars, taskVars>>

SpecServer == InitTest /\ [][NextServer]_vars

\* pollForPidFile with a reader of the test, from the start of the poll
InitPoll ==
    /\ InitRange
    /\ InitTaskID
    /\ InitRun
    /\ cfg = [TaskID |-> <<116, 49>>, Prompt |-> defaultPrompt(<<116, 49>>), Debug |-> FALSE,
              AllowDirty |-> FALSE, ExistingBranch |-> FALSE, Token |-> TRUE]
    /\ dockerOps = "real"
    /\ hostDirty = FALSE
    /\ hostBranch = [exists |-> FALSE, tip |-> 0, checkedOut |-> FALSE]
    /\ srv = "poll"
    /\ attempt = 0
    /\ port \in Ports
    /\ lastErr = NoErr
    /\ pidFile \in ReadResults
    /\ polls = 0
    /\ wrapper = "running"
    /\ cur \in Pids
    /\ procs = [p \in Pids |-> IF p = cur THEN [st |-> "starting", port |-> port] ELSE Free]
    /\ busyPorts = {}
    /\ handle = Nil
    /\ retPort = 0
    /\ stop = "idle"
    /\ stopArg = Nil
    /\ stopHist = <<>>
    /\ signalled = "none"

PollStep ==
    /\ pollForPidFileSleep \/ pollForPidFileFound \/ pollForPidFileTimeout
    /\ UNCHANGED <<stopVars, outieVars, innieVars, rangeVars, taskVars>>

NextPoll ==
    \/ MockReader /\ UNCHANGED <<stopVars, outieVars, innieVars, rangeVars, taskVars>>
    \/ PollStep

\* the poll loop keeps running until it returns
SpecPoll == InitPoll /\ [][NextPoll]_vars /\ WF_vars(PollStep)

\* GetBranchCommitRange called once in any repository
InitRepo ==
    /\ InitServer
    /\ busyPorts = {}
    /\ InitRun
    /\ cfg = [TaskID |-> <<116, 49>>, Prompt |-> defaultPrompt(<<116, 49>>), Debug |-> FALSE,
              AllowDirty |-> FALSE, ExistingBranch |-> FALSE, Token |-> TRUE]
    /\ dockerOps = "real"
    /\ hostDirty = FALSE
    /\ hostBranch = [exists |-> FALSE, tip |-> 0, checkedOut |-> FALSE]
    /\ repo \in Repos
    /\ range = NoRange
    /\ instr = NotPrinted
    /\ InitTaskID

NextRange ==
    (CallGetBranchCommitRange \/ PrintInstructions)
    /\ UNCHANGED <<serverVars, outieVars, innieVars, taskVars>>

SpecRange == InitRepo /\ [][NextRange]_vars

\* validateTaskID called once with any TASK-ID
InitValidate ==
    /\ InitServer
    /\ busyPorts = {}
    /\ InitRun
    /\ cfg = [TaskID |-> <<116, 49>>, Prompt |-> defaultPrompt(<<116, 49>>), Debug |-> FALSE,
              AllowDirty |-> FALSE, ExistingBranch |-> FALSE, Token |-> TRUE]
    /\ dockerOps = "real"
    /\ hostDirty = FALSE
    /\ hostBranch = [exists |-> FALSE, tip |-> 0, checkedOut |-> FALSE]
    /\ InitRange
    /\ taskID \in Concatenations(MaxFragments)
    /\ verr = NotValidated
    /\ cmdline = <<>>

NextValidate ==
    CallValidateTaskID /\ UNCHANGED <<serverVars, outieVars, innieVars, rangeVars>>

SpecValidate == InitValidate /\ [][NextValidate]_vars

\* giverny started with a command line: main, then the outie or the innie
InitMain ==
    /\ InitServer
    /\ InitRange
    /\ taskID = <<>>
    /\ verr = NotValidated
    /\ cmdline \in CommandLines
    /\ busyPorts = {}
    /\ pc = "main"
    /\ InitRunState
    /\ cfg \in [TaskID : {<<>>}, Prompt : {<<>>}, Debug : {FALSE},
                 AllowDirty : BOOLEAN, ExistingBranch : BOOLEAN, Token : BOOLEAN]
    /\ dockerOps \in {"real", "mock"}
    /\ hostDirty \in BOOLEAN
    /\ hostBranch \in {[exists |-> FALSE, tip |-> 0, checkedOut |-> FALSE], [exists |-> TRUE, tip |-> 0, checkedOut |-> FALSE]}

NextMain ==
    (Main \/ MainInnieReturn \/ OutieStep \/ InnieStep)
    /\ UNCHANGED <<serverVars, rangeVars, taskVars>>

SpecMain == InitMain /\ [][NextMain]_vars

\* ---------------------------------------------------------------------
\* Properties
\* ---------------------------------------------------------------------
\* how often outie.Run has called the collaborator
Count(name) == Cardinality({i \in DOMAIN calls : calls[i] = name})
Called(name) == Count(name) > 0
\* every call of a comes before every call of b
Precedes(a, b) ==
    \A i, j \in DOMAIN calls : calls[i] = a /\ calls[j] = b => i < j
\* StartServer returned a handle to outie.Run
ServerStarted == ~serverCmd.nil
\* RunContainer has returned an error or a non-zero exit code
WorkerFailed == Called("RunContainer") /\ pc \in {"after", "unwind", "done"}
                /\ (rc.err # "" \/ rc.code # 0)
\* a StopServer call on the handle has returned nil
StoppedOk == \E i \in DOMAIN stopHist : ~stopHist[i].nil /\ stopHist[i].res = "ok"

\* C1: whenever StartServer returns without error, the ActualPid of the handle
\* was parsed from the readiness file of the successful attempt, is positive,
\* and is the pid of a daemon that is alive when StartServer returns.
C1_HandleIdentifiesLiveDaemon ==
    srv = "ok" =>
        /\ SscanfOk(handle.fromFile)
        /\ handle.ActualPid = SscanfVal(handle.fromFile)
        /\ handle.ActualPid > 0
        /\ handle.liveAtReturn

\* C2: a run in which StartServer succeeded calls StopServer exactly once,
\* with the handle StartServer returned, before Run returns, whatever the
\* run's result; a run that fails before StartServer succeeds never calls it.
C2_StopServerOncePerStartedServer ==
    /\ Count("StopServer") = Len(stopLog)
    /\ ~ServerStarted => stopLog = <<>>
    /\ pc # "done" => stopLog = <<>>
    /\ (pc = "done" /\ ServerStarted) => stopLog = <<serverCmd>>

\* C2 witness: a run whose container failed has returned with the server stopped
C2_Witness ==
    /\ pc = "done"
    /\ ServerStarted
    /\ result.kind = "container exited with code"
    /\ stopLog = <<serverCmd>>

\* C3: the innie calls PushBranch only when no action that can change the
\* workspace (worker, commit, review, shell, restart) has run since a dirty
\* query that returned clean.
C3_PushOnlyAfterCleanQuery == ipc = "push" => fresh

\* C4: StartServer makes at most maxRetries attempts, one at a time; it
\* returns success at the first attempt that becomes ready, after only failed
\* attempts, and makes no attempt afterwards; when all maxRetries attempts
\* failed it returns a nil handle, port 0 and the error of the last attempt.
C4_State ==
    /\ attempt \in 0..maxRetries
    /\ srv = "loop" => wrapper \in {"none", "reaped"}
    /\ srv = "ok" => attempt < maxRetries /\ ~handle.nil /\ retPort \in Ports
    /\ srv = "fail" =>
          /\ attempt = maxRetries
          /\ handle = Nil
          /\ retPort = 0
          /\ lastErr.kind # "none"
          /\ lastErr.att = maxRetries - 1

C4_Step ==
    /\ attempt' \in {attempt, attempt + 1}
    /\ srv \in {"ok", "fail"} =>
          /\ srv' = srv
          /\ attempt' = attempt
          /\ handle' = handle
          /\ retPort' = retPort
          /\ wrapper' \in {wrapper, "exited", "reaped"}

C4_BoundedRetry == [](C4_State) /\ [][C4_Step]_vars

\* C4 witness: nine failed attempts, then the tenth is ready
C4_Witness == srv = "ok" /\ attempt = maxRetries - 1

\* C5: StopServer(nil) returns nil, and a StopServer call on a handle that
\* was stopped before returns nil as well.
C5_StopServerIdempotent ==
    \A i \in DOMAIN stopHist :
        /\ stopHist[i].nil => stopHist[i].res = "ok"
        /\ (/\ ~stopHist[i].nil
            /\ \E j \in 1..(i - 1) : ~stopHist[j].nil /\ stopHist[j].res = "ok")
           => stopHist[i].res = "ok"

\* C6: a StopServer call on a handle signals its ActualPid and then waits on
\* the wrapper; once it has returned nil on the handle of a successful
\* StartServer, the daemon is not running, the wrapper is reaped and no
\* daemon that StartServer left behind serves on the returned port.
C6_StopLeavesNothingBehind ==
    /\ \A i \in DOMAIN stopHist :
          (~stopHist[i].nil /\ stopHist[i].res = "ok") => stopHist[i].found # "skipped"
    /\ (srv = "ok" /\ StoppedOk) =>
          /\ cur = 0
          /\ wrapper = "reaped"
          /\ ~Listening(retPort)

\* C7: Run returns "working directory has uncommitted changes" exactly when
\* the host workspace is dirty and neither AllowDirty nor ExistingBranch is
\* set (and Run came as far as the gate and the query answered); it has then
\* made one dirty query and no other call; with a clean workspace or with
\* AllowDirty the dirty state does not stop the run.
C7_DirtyGate ==
    LET refused == result.kind = "working directory has uncommitted changes"
        gated == hostDirty /\ ~cfg.AllowDirty /\ ~cfg.ExistingBranch
    IN /\ Count("IsWorkspaceDirty") <= 1
       /\ refused => gated /\ calls = <<"IsWorkspaceDirty">>
       /\ gated =>
             /\ ~Called("CreateBranch") /\ ~Called("StartServer")
             /\ ~Called("BuildImage") /\ ~Called("RunContainer")
             /\ pc = "done" =>
                   result.kind \in {"working directory has uncommitted changes",
                                    "failed to check workspace status",
                                    "failed to find project root",
                                    "failed to change to project root",
                                    "CLAUDE_CODE_OAUTH_TOKEN environment variable is not set"}
       /\ cfg.AllowDirty => ~Called("IsWorkspaceDirty")

\* C7 witness: a run on a dirty workspace was refused
C7_Witness ==
    /\ pc = "done"
    /\ result.kind = "working directory has uncommitted changes"
    /\ calls = <<"IsWorkspaceDirty">>

\* C8: in existing-branch mode Run never queries the dirty state and never
\* calls CreateBranch; it calls BranchExists and reaches StartServer only if
\* the branch exists and the check succeeded. In normal mode it never calls
\* BranchExists and calls CreateBranch before StartServer.
C8_BranchMode ==
    /\ cfg.ExistingBranch =>
          /\ ~Called("IsWorkspaceDirty")
          /\ ~Called("CreateBranch")
          /\ Called("StartServer") =>
                /\ Count("BranchExists") = 1
                /\ Precedes("BranchExists", "StartServer")
                /\ hostBranch.exists
          /\ result.kind \in {"branch does not exist", "failed to check if branch exists"}
                => ~Called("StartServer")
          /\ (pc = "done" /\ Called("BranchExists") /\ ~hostBranch.exists)
                => result.kind \in {"branch does not exist", "failed to check if branch exists"}
    /\ ~cfg.ExistingBranch =>
          /\ ~Called("BranchExists")
          /\ Called("StartServer") =>
                /\ Count("CreateBranch") = 1
                /\ Precedes("CreateBranch", "StartServer")

\* C8 witness: a run in existing-branch mode ended because the branch is missing
C8_Witness ==
    /\ pc = "done"
    /\ cfg.ExistingBranch
    /\ result.kind = "branch does not exist"
    /\ calls = <<"BranchExists">>

\* C9: once RunContainer has returned an error or a non-zero exit code, Run
\* never calls RemoveContainer, never resolves the commit range, leaves the
\* container and the task branch as they are, and returns a non-nil error.
C9_State ==
    WorkerFailed =>
        /\ ~Called("RemoveContainer")
        /\ ~Called("GetBranchCommitRange")
        /\ container # "removed"
        /\ hostBranch.exists
        /\ printed = ""
        /\ pc = "done" => result.kind \in {"container failed", "container exited with code"}

C9_Step == WorkerFailed => hostBranch' = hostBranch /\ container' = container

C9_FailureKeepsArtifacts == [](C9_State) /\ [][C9_Step]_vars

\* C9 witness: the innie ran, ended with a non-zero exit code, and Run has returned
C9_Witness ==
    /\ pc = "done"
    /\ rc.code # 0
    /\ rc.err = ""
    /\ container = "present"
    /\ ipc = "exit"

WorkerSucceeded == Called("RunContainer") /\ pc \in {"after", "range", "unwind", "done"}
                   /\ rc.err = "" /\ rc.code = 0

\* C11: once RunContainer has returned exit code 0 with no error, Run returns
\* nil whether or not RemoveContainer, GetBranchCommitRange, GetShortHash or
\* StopServer fail; their failures are warnings, and a hash that could not be
\* shortened is shown in full.
C11_SuccessIgnoresCleanupFailures ==
    WorkerSucceeded =>
        /\ pc = "done" => result = Ok
        /\ pc \in {"after", "range"} => result = Pending
        /\ \A i \in DOMAIN shown :
              LET c == IF i = 1 THEN 1 ELSE hostBranch.tip
              IN shown[i] \in {<<"short", c>>, <<"full", c>>}

\* C11 witness: a successful run in which RemoveContainer, GetShortHash and
\* StopServer all failed
C11_Witness ==
    /\ pc = "done"
    /\ WorkerSucceeded
    /\ result = Ok
    /\ warnings = {"failed to remove container", "failed to stop git server"}
    /\ \E i \in DOMAIN shown : shown[i][1] = "full"

\* the calls of a successful run on a new branch, in order
SuccessfulFlow ==
    <<"IsWorkspaceDirty", "CreateBranch", "StartServer", "BuildImage", "RunContainer",
      "RemoveContainer", "GetBranchCommitRange", "GetShortHash(first)",
      "GetShortHash(last)", "StopServer">>

\* C12: a run that returns nil on a new branch with the dirty check enabled,
\* a worker that exits 0 and a commit range whose first differs from its last
\* has called IsWorkspaceDirty, CreateBranch, StartServer, BuildImage,
\* RunContainer, RemoveContainer, GetBranchCommitRange, GetShortHash(first),
\* GetShortHash(last), StopServer, each once and in this order.
C12_SuccessfulCallOrder ==
    (/\ pc = "done"
     /\ result = Ok
     /\ ~cfg.ExistingBranch
     /\ ~cfg.AllowDirty
     /\ rc.code = 0
     /\ printed = "merge, cherry-pick range")
    => calls = SuccessfulFlow

\* C12 witness: such a run has returned, the innie having pushed two commits
C12_Witness ==
    /\ pc = "done"
    /\ result = Ok
    /\ ipc = "exit"
    /\ hostBranch.tip = 2
    /\ Len(shown) = 2
    /\ calls = SuccessfulFlow

\* C13 as claimed: in a successful run the calls follow the sequence create
\* branch, start service, build image, run worker, stop service, resolve
\* commit range, print instructions; the service is stopped before the commit
\* range is resolved and before the instructions are printed.
C13_StopBeforeCommitRange ==
    /\ (pc = "done" /\ result = Ok /\ ~cfg.ExistingBranch) =>
          /\ Precedes("CreateBranch", "StartServer")
          /\ Precedes("StartServer", "BuildImage")
          /\ Precedes("BuildImage", "RunContainer")
          /\ Precedes("RunContainer", "StopServer")
          /\ Precedes("StopServer", "GetBranchCommitRange")
    /\ (Called("GetBranchCommitRange") \/ printed # "") => Called("StopServer")

\* C13 amended: in a successful run the calls follow the sequence create
\* branch, start service, build image, run worker, resolve commit range,
\* print instructions, stop service; the service is stopped after the commit
\* range is resolved and the instructions are printed, as the last call of Run.
C13_StopAfterCommitRange ==
    /\ (pc = "done" /\ result = Ok /\ ~cfg.ExistingBranch) =>
          /\ \A n \in {"CreateBranch", "StartServer", "BuildImage", "RunContainer",
                       "GetBranchCommitRange", "StopServer"} : Count(n) = 1
          /\ Precedes("CreateBranch", "StartServer")
          /\ Precedes("StartServer", "BuildImage")
          /\ Precedes("BuildImage", "RunContainer")
          /\ Precedes("RunContainer", "GetBranchCommitRange")
          /\ Precedes("GetBranchCommitRange", "StopServer")
          /\ calls[Len(calls)] = "StopServer"
    /\ (pc # "done" /\ (Called("GetBranchCommitRange") \/ printed # ""))
          => ~Called("StopServer")

\* C13 witness: a successful run has printed its instructions and returned
C13_Witness ==
    /\ pc = "done"
    /\ result = Ok
    /\ ~cfg.ExistingBranch
    /\ printed = "merge, cherry-pick one"
    /\ calls[Len(calls)] = "StopServer"

\* the fence points of the task branch: the start marker when it exists,
\* otherwise a merge-base with main
Fences(r) ==
    IF r.refs["start"] # 0 THEN {r.refs["start"]}
    ELSE BestCommonAncestors(r, "main", "branch")

\* the commits of the task branch beyond fence point f
Beyond(r, f) == {c \in Reach(r, r.refs["branch"]) : c \notin Reach(r, f)}

Earliest(S) == CHOOSE x \in S : \A y \in S : x <= y

RangeCalled == range # NoRange

\* C14: for a branch with no commits beyond its fence point (the start marker
\* when it exists, otherwise the merge-base with main) GetBranchCommitRange
\* returns ("", "", nil); for one new commit first = last = that commit; for
\* N > 1 new commits first is the earliest commit beyond the fence point and
\* last is the branch tip.
C14_CommitRangeEndpoints ==
    (RangeCalled /\ repo.refs["branch"] # 0 /\ Fences(repo) # {}) =>
        \E f \in Fences(repo) :
            LET new == Beyond(repo, f)
            IN /\ new = {} => range = EmptyRange
               /\ Cardinality(new) = 1 =>
                     \E c \in new : range = Range(FullHash(c), FullHash(c), "")
               /\ Cardinality(new) > 1 =>
                     range = Range(FullHash(Earliest(new)), FullHash(repo.refs["branch"]), "")

\* C14 witness: three commits beyond the merge-base with main, no start marker
C14_Witness ==
    /\ RangeCalled
    /\ repo.refs["start"] = 0
    /\ repo.refs["main"] # 0
    /\ \E f \in Fences(repo) : Cardinality(Beyond(repo, f)) = 3
    /\ range.first # range.last
    /\ range.first # <<>>

\* the repositories that differ from r at most in the upstream-tracking ref
\* of the task branch
UpstreamTwins(r) == {[r EXCEPT !.refs["upstream"] = u] : u \in 0..MaxRepoCommits}

\* what GetBranchCommitRange can return in repository r
Outcomes(r) ==
    {GetBranchCommitRange(r, mb) : mb \in mergeBase(r, parentBranch(r), "branch")}

\* C15: the result of GetBranchCommitRange does not depend on the
\* upstream-tracking configuration: a repository that differs only in the
\* upstream-tracking ref of the task branch (absent, at the branch tip or
\* anywhere else) yields the same (first, last), and without a start marker
\* the range is computed relative to main.
C15_UpstreamIndependent ==
    RangeCalled =>
        /\ \A t \in UpstreamTwins(repo) : range \in Outcomes(t) /\ Outcomes(t) = Outcomes(repo)
        /\ (repo.refs["start"] = 0 /\ range.first # <<>>) =>
              \E f \in BestCommonAncestors(repo, "main", "branch") :
                  /\ range.first = FullHash(Earliest(Beyond(repo, f)))
                  /\ range.last = FullHash(repo.refs["branch"])

\* C15 witness: the upstream-tracking ref is at the branch tip and the range
\* relative to main is reported
C15_Witness ==
    /\ RangeCalled
    /\ repo.refs["start"] = 0
    /\ repo.refs["upstream"] = repo.refs["branch"]
    /\ repo.refs["main"] # repo.refs["branch"]
    /\ range.first # <<>>
    /\ range.first # range.last

\* git merge-base main <branch> fails: main does not resolve or shares no
\* commit with the task branch
NoSharedHistory(r) == CommonAncestors(r, "main", "branch") = {}

\* C16: in the fallback strategy (no start marker), when the task branch and
\* main share no history, or main does not exist, GetBranchCommitRange
\* returns ("", "") with a nil error.
C16_NoSharedHistoryIsEmpty ==
    (/\ RangeCalled
     /\ repo.refs["branch"] # 0
     /\ repo.refs["start"] = 0
     /\ NoSharedHistory(repo))
    => range = Range(<<>>, <<>>, "")

\* C16 witness: main exists, the task branch has two commits of its own and
\* the two have no commit in common
C16_Witness ==
    /\ RangeCalled
    /\ repo.refs["start"] = 0
    /\ repo.refs["main"] # 0
    /\ repo.refs["branch"] # 0
    /\ Cardinality(Reach(repo, repo.refs["branch"])) = 2
    /\ NoSharedHistory(repo)
    /\ range.err = ""

Validated == verr # NotValidated

\* the characters the rule names: '/', '\', white space (tab, newline, form
\* feed, carriage return, space), control characters 0-31 and 127, ~ ^ : ? * [
ForbiddenCharacter(c) ==
    \/ c = 47 \/ c = 92
    \/ c \in {9, 10, 12, 13, 32}
    \/ (0 <= c /\ c <= 31) \/ c = 127
    \/ c \in {126, 94, 58, 63, 42, 91}

HasForbiddenCharacter(t) == \E i \in DOMAIN t : ForbiddenCharacter(t[i])

Leftmost(t) == t[CHOOSE i \in DOMAIN t :
                    ForbiddenCharacter(t[i]) /\ \A j \in 1..(i - 1) : ~ForbiddenCharacter(t[j])]

HasDoubleDot(t) == \E i \in 1..(Len(t) - 1) : t[i] = 46 /\ t[i + 1] = 46

HasAtBrace(t) == \E i \in 1..(Len(t) - 1) : t[i] = 64 /\ t[i + 1] = 123

StartsWithDot(t) == Len(t) >= 1 /\ t[1] = 46

EndsWithLock(t) ==
    /\ Len(t) >= 5
    /\ <<t[Len(t) - 4], t[Len(t) - 3], t[Len(t) - 2], t[Len(t) - 1], t[Len(t)]>>
          = <<46, 108, 111, 99, 107>>

MustReject(t) ==
    \/ t = <<>>
    \/ HasForbiddenCharacter(t)
    \/ HasDoubleDot(t)
    \/ HasAtBrace(t)
    \/ StartsWithDot(t)
    \/ EndsWithLock(t)

InnieFlow == <<"CloneRepo", "worktree add", "branch START", "executeClaude",
               "PostClaudeMenu", "PushBranch">>

ICalled(name) == \E i \in DOMAIN icalls : icalls[i][1] = name

\* the steps taken so far are the first steps of InnieFlow, in its order
InnieInOrder ==
    /\ Len(icalls) <= Len(InnieFlow)
    /\ \A i \in DOMAIN icalls : icalls[i][1] = InnieFlow[i]

\* clone, checkout or start-marker creation has failed
SetupFailed ==
    innieErr \in {"failed to clone repository", "failed to setup workspace",
                  "failed to change to /app directory"}

ExitWhileDirty == ipc = "choice" /\ ipc' # "choice" /\ choice' = "x" /\ dirty

\* C18: choosing exit ('x') while the dirty query of that round reported
\* uncommitted changes never returns from the menu and never leads to a
\* push: the menu prints a refusal and goes back to the top of its loop,
\* where the dirty state is queried again and the menu presented again.
C18_Step ==
    /\ ExitWhileDirty =>
          /\ ipc' = "menu"
          /\ menuOut' = "Cannot exit with uncommitted changes"
          /\ innieErr' = innieErr
          /\ icalls' = icalls
          /\ hostBranch' = hostBranch
    /\ (ipc = "menu" /\ ipc' # "menu") =>
          \/ ipc' = "choice" /\ dirty' = wsDirty
          \/ ipc' = "exit" /\ innieErr' = "menu error"

C18_ExitWhileDirtyRefused == [][C18_Step]_vars

\* C18 witness: exit was refused, and the menu is presented again after a new
\* dirty query
C18_Witness ==
    /\ ipc = "choice"
    /\ choice = "x"
    /\ menuOut = "Cannot exit with uncommitted changes"
    /\ dirty
    /\ ~ICalled("PushBranch")

\* C20: for every valid TASK-ID the task branch is giverny/<TASK-ID> and
\* every step of one run uses that name (the outie's branch creation or
\* existence check and commit-range resolution, the innie's checkout and
\* push); the container is giverny-<TASK-ID>, and the port handed to the
\* worker is the port StartServer returned.
C20_OneNamePerRun ==
    validateTaskID(cfg.TaskID) = <<>> =>
        /\ branchName(cfg.TaskID) = <<103, 105, 118, 101, 114, 110, 121, 47>> \o cfg.TaskID
        /\ containerName(cfg.TaskID) = <<103, 105, 118, 101, 114, 110, 121, 45>> \o cfg.TaskID
        /\ innieCfg # NoConfig =>
              /\ innieCfg.TaskID = cfg.TaskID
              /\ innieCfg.GitServerPort = gitPort
        /\ \A i \in DOMAIN icalls :
              /\ icalls[i][1] \in {"worktree add", "PushBranch"}
                    => icalls[i][2] = branchName(cfg.TaskID)
              /\ icalls[i][1] = "CloneRepo" => icalls[i][2] = <<gitPort>>

\* what cobra parsed from the command line of the run
Parsed == ParseFlags(cmdline, NoFlags)

WellFormed == Parsed.err = "" /\ Len(Parsed.args) \in {1, 2}

InvalidTaskID == WellFormed /\ validateTaskID(Parsed.args[1]) # <<>>

InnieWithoutPort ==
    /\ WellFormed
    /\ validateTaskID(Parsed.args[1]) = <<>>
    /\ Parsed.IsInnie
    /\ Parsed.GitServerPort = 0

MissingToken == pc \notin {"main", "innie"} /\ ~Parsed.IsInnie /\ mainError(Parsed) = "" /\ ~cfg.Token

\* nothing of the outie or innie workflow has happened
NothingDone ==
    /\ calls = <<>>
    /\ icalls = <<>>
    /\ ipc = "idle"
    /\ ~serverUp
    /\ container = "none"
    /\ printed = ""

TokenError == "CLAUDE_CODE_OAUTH_TOKEN environment variable is not set"

C21_State ==
    /\ InvalidTaskID =>
          /\ NothingDone
          /\ pc \in {"main", "done"}
          /\ pc = "done" => result = Err("invalid TASK-ID", "", {})
    /\ InnieWithoutPort =>
          /\ NothingDone
          /\ pc \in {"main", "done"}
          /\ pc = "done" =>
                result = Err("--git-server-port is required when --innie is set", "", {})
    /\ MissingToken =>
          /\ NothingDone
          /\ pc \in {"start", "unwind", "done"}
          /\ pc = "done" =>
                result.kind \in {TokenError, "failed to find project root",
                                 "failed to change to project root"}

\* a check that has been made is not made again
C21_Step ==
    /\ pc' = "main" => pc = "main"
    /\ pc' = "start" => pc \in {"main", "start"}
    /\ ipc' = "clone" => ipc \in {"idle", "clone"}

\* C21: pre-condition failures fail fast without side effects: an invalid
\* TASK-ID is rejected before the outie or innie workflow starts, an innie
\* run without a git server port is rejected before cloning, a missing
\* CLAUDE_CODE_OAUTH_TOKEN makes Run return an error before the dirty query,
\* branch creation, service start, image build and worker run; no check is
\* retried.
C21_PreconditionsFailFast == [](C21_State) /\ [][C21_Step]_vars

\* C21 witness: an innie started without a port has been rejected
C21_Witness ==
    /\ InnieWithoutPort
    /\ pc = "done"
    /\ result = Err("--git-server-port is required when --innie is set", "", {})
    /\ icalls = <<>>

RunEnded == pc \in {"unwind", "done"}

\* a was called, and before every call of b
CalledBefore(a, b) == Called(a) /\ Precedes(a, b)

\* C22: the outie phases run one after another and a failure aborts the run
\* at that phase: after a failed CreateBranch neither StartServer, BuildImage
\* nor RunContainer is called, after a failed StartServer neither BuildImage
\* nor RunContainer, after a failed BuildImage not RunContainer; the error
\* names the failed phase and wraps the cause.
C22_PhaseFailureAborts ==
    /\ Called("StartServer") =>
          (CalledBefore("CreateBranch", "StartServer")
             \/ CalledBefore("BranchExists", "StartServer"))
    /\ Called("BuildImage") => CalledBefore("StartServer", "BuildImage")
    /\ Called("RunContainer") => CalledBefore("BuildImage", "RunContainer")
    /\ (RunEnded /\ Called("CreateBranch") /\ ~Called("StartServer")) =>
          result.kind = "failed to create branch"
    /\ (RunEnded /\ Called("StartServer") /\ ~Called("BuildImage")) =>
          result.kind = "failed to start git server"
    /\ (RunEnded /\ Called("BuildImage") /\ ~Called("RunContainer")) =>
          result.kind = "failed to build image"
    /\ result.kind = "failed to create branch" =>
          /\ result.cause # ""
          /\ ~Called("StartServer") /\ ~Called("BuildImage") /\ ~Called("RunContainer")
    /\ result.kind = "failed to start git server" =>
          /\ result.cause # ""
          /\ ~Called("BuildImage") /\ ~Called("RunContainer")
    /\ result.kind = "failed to build image" =>
          /\ result.cause # ""
          /\ ~Called("RunContainer")

\* C22 witness: the image build failed after the server had been started
C22_Witness ==
    /\ pc = "done"
    /\ result = Err("failed to build image", "docker build", {})
    /\ Called("StartServer")
    /\ ~Called("RunContainer")

InstructionsPrinted == instr # NotPrinted

\* C23: on success the outie prints merge and cherry-pick instructions
\* exactly when the commit range was resolved without error and first and
\* last are both non-empty; the merge command is git merge --ff-only
\* giverny/<TASK-ID>, the cherry-pick command is git cherry-pick <short> when
\* first = last and git cherry-pick <short-first>^..<short-last> otherwise,
\* the hashes being those GetShortHash returns.
C23_Instructions ==
    InstructionsPrinted =>
        /\ (instr # <<>>) <=> (range.err = "" /\ range.first # <<>> /\ range.last # <<>>)
        /\ instr # <<>> =>
              /\ instr[1] = <<"git merge --ff-only %s",
                              <<103, 105, 118, 101, 114, 110, 121, 47>> \o cfg.TaskID>>
              /\ range.first = range.last =>
                    /\ instr[2][1] = "git cherry-pick %s"
                    /\ instr[2][2] \in {<<"short", range.first[2]>>, range.first}
              /\ range.first # range.last =>
                    /\ instr[2][1] = "git cherry-pick %s^..%s"
                    /\ instr[2][2] \in {<<"short", range.first[2]>>, range.first}
                    /\ instr[2][3] \in {<<"short", range.last[2]>>, range.last}

\* C23 witness: one commit beyond the fence point, shown by its short hash
C23_Witness ==
    /\ InstructionsPrinted
    /\ range.first # <<>>
    /\ range.first = range.last
    /\ instr[2] = <<"git cherry-pick %s", <<"short", repo.refs["branch"]>>>>

CreatingBranch == pc = "branch" /\ ~ValidatesExisting(cfg)

\* C24: CreateBranch creates the branch at the current HEAD without checking
\* it out, leaving the current branch and the working tree as they were;
\* creating a branch that already exists fails, leaves the existing branch
\* unchanged, and the error that says "already exists" is returned for an
\* existing branch only.
C24_Step ==
    CreatingBranch =>
        /\ hostBranch'.checkedOut = hostBranch.checkedOut
        /\ hostDirty' = hostDirty
        /\ hostBranch.exists =>
              /\ hostBranch' = hostBranch
              /\ result'.kind = "failed to create branch"
              /\ result'.cause \in {"already exists", "git branch"}
        /\ ~hostBranch.exists =>
              /\ result'.cause # "already exists"
              /\ \/ /\ result' = Pending
                    /\ hostBranch' = [exists |-> TRUE, tip |-> 0,
                                      checkedOut |-> hostBranch.checkedOut]
                 \/ /\ result'.kind = "failed to create branch"
                    /\ result'.cause = "git branch"
                    /\ hostBranch' = hostBranch

C24_CreateBranch == [][C24_Step]_vars

\* C24 witness: CreateBranch on a branch with one commit was refused with
\* "already exists", the branch is as it was
C24_Witness ==
    /\ pc = "done"
    /\ result = Err("failed to create branch", "already exists", {})
    /\ Called("CreateBranch")
    /\ hostBranch = [exists |-> TRUE, tip |-> 1, checkedOut |-> FALSE]

\* C25: the task branch is never deleted: once giverny/<TASK-ID> exists,
\* created by Run or found by it, it exists after every later step of the
\* run, the returns after a failed StartServer, BuildImage or worker
\* included, and it loses no commit.
C25_Step == hostBranch.exists => hostBranch'.exists /\ hostBranch'.tip >= hostBranch.tip

C25_BranchNeverDeleted == [][C25_Step]_vars

\* C25 witness: Run created the branch, the image build failed, Run has
\* returned and the branch is there
C25_Witness ==
    /\ pc = "done"
    /\ result.kind = "failed to build image"
    /\ Called("CreateBranch")
    /\ hostBranch.exists

\* the port the daemon of the attempt in progress was started with
AttemptPort == IF cur # 0 THEN procs[cur].port ELSE port

\* StartServer returns the handle of the attempt in progress
BecomesReady == srv = "poll" /\ srv' = "ok"

C26_State ==
    /\ srv = "poll" => port \in 2001..9999
    /\ lastErr # NoErr => lastErr.port \in 2001..9999
    /\ \A p \in Pids : procs[p].st \in AliveStates => procs[p].port \in 2001..9999
    /\ srv = "ok" => retPort \in 2001..9999

C26_Step == BecomesReady => retPort' = port /\ retPort' = AttemptPort

\* C26: every candidate port StartServer tries lies in [2001, 9999], and
\* the port it returns on success is the port of the attempt that became
\* ready.
C26_PortRange == [](C26_State) /\ [][C26_Step]_vars

\* C26 witness: StartServer succeeded on the upper end of the range after
\* an earlier attempt, and the daemon it reports serves on that port
C26_Witness ==
    /\ srv = "ok"
    /\ attempt > 0
    /\ retPort = 9999
    /\ procs[handle.ActualPid] = [st |-> "serving", port |-> 9999]

\* C27: pollForPidFile never returns an identifier read from a partially
\* written file: the text StartServer parsed is the complete text a daemon
\* writes, and the pid it returns is that daemon's.
C27_PidFromCompleteFile ==
    srv = "ok" =>
        \E p \in Pids : handle.fromFile = PidText(p) /\ handle.ActualPid = p

\* the daemons spawned by StartServer that are alive
DaemonsAlive == {p \in Pids : procs[p].st \in AliveStates}

\* C28: when a start attempt has failed, every process spawned for it has
\* been killed and reaped and its readiness file removed before the next
\* attempt begins or StartServer returns; the file is removed after a
\* successful attempt too. At most one daemon spawned by StartServer is alive
\* at any time, and none after StartServer returned an error.
C28_FailedAttemptLeavesNothing ==
    /\ srv \in {"loop", "fail"} =>
          /\ DaemonsAlive = {}
          /\ wrapper \in {"none", "reaped"}
          /\ pidFile = Absent
    /\ srv = "ok" => pidFile = Absent
    /\ Cardinality(DaemonsAlive) <= 1

\* what a read must return for pollForPidFile to go on polling
Retried(f) == ~f.exists \/ f.data = <<>> \/ ~SscanfOk(f.data)

Polling == srv = "poll"
PollReturnsPid == Polling /\ srv' = "ok"
PollTimesOut == Polling /\ srv' = "loop"

C29_Step ==
    /\ (Polling /\ Retried(pidFile) /\ srv' # "poll") =>
          /\ PollTimesOut
          /\ lastErr'.kind = "timeout"
          /\ handle' = handle
    /\ (Polling /\ Retried(pidFile) /\ polls' # polls /\ srv' = "poll") => polls' = polls + 1
    /\ PollReturnsPid =>
          /\ ~Retried(pidFile)
          /\ handle'.fromFile = pidFile.data
          /\ handle'.ActualPid = SscanfVal(pidFile.data)
    /\ PollTimesOut => lastErr'.kind = "timeout" /\ handle' = handle

\* C29: pollForPidFile treats a read error, an empty file and unparsable
\* content alike: each is followed by another poll and none ends the poll
\* with a result; the poll returns the first pid it can parse, returns the
\* timeout error when the deadline passes without one, and always ends.
C29_Poll == [][C29_Step]_vars /\ (Polling ~> ~Polling)

\* C29 witness: the reader never returned a number and the poll ended with
\* the timeout error
C29_Witness ==
    /\ srv = "loop"
    /\ lastErr.kind = "timeout"
    /\ handle = Nil

\* an action of the menu other than exit was chosen
MenuAction == ipc = "choice" /\ choice' \in {"c", "d", "s", "r"}

C30_Step == MenuAction => ipc' = "menu"

\* C30: after the commit action and after the restart action the innie
\* checks the dirty state again and shows the menu again, as after the shell
\* and the review: none of c, d, s, r ends the menu loop.
C30_ActionsReturnToMenu == [][C30_Step]_vars

\* the steps of innie.Run that created a start marker, by position in icalls
MarkerCreations == {i \in DOMAIN icalls : icalls[i][1] = "branch START"}

C31_State ==
    /\ Cardinality(MarkerCreations) <= 1
    /\ \A i \in MarkerCreations :
          /\ icalls[i][2] = resolverStartLabel(branchName(innieCfg.TaskID))
          /\ \A j \in DOMAIN icalls : icalls[j][1] = "executeClaude" => i < j
    /\ marker.app # NoCommit => marker.app = 0 /\ MarkerCreations # {}
    /\ ICalled("executeClaude") => marker.app = 0
    /\ ~marker.host
    /\ \A i \in DOMAIN icalls :
          icalls[i][1] = "PushBranch" => icalls[i][2] # startLabel(branchName(innieCfg.TaskID))

C31_Step == marker.app # NoCommit => marker'.app = marker.app

TaskBranchPushed ==
    /\ \E i \in DOMAIN icalls : icalls[i] = <<"PushBranch", branchName(cfg.TaskID)>>
    /\ ipc = "exit"
    /\ innieErr = ""

\* C32: with the real docker operations Run removes the container and
\* returns nil only if the innie pushed the task branch and PushBranch
\* returned nil; every failure of the innie gives a non-zero exit code, so a
\* container with unpushed commits is never removed.
C32_SuccessOnlyAfterPush ==
    dockerOps = "real" =>
        /\ Called("RemoveContainer") => TaskBranchPushed
        /\ (pc = "done" /\ result = Ok) => TaskBranchPushed
        /\ (pc \in {"after", "range", "unwind", "done"} /\ innieCfg # NoConfig /\ innieErr # "")
              => rc.code # 0

\* the repository as the host sees it after the push: the same commits and
\* branches, without the start marker, which exists in the workspace only
hostView(r) == [r EXCEPT !.refs["start"] = 0]

\* a task branch created at the commit the start marker names and changed
\* only in the workspace: the marker is the tip or an ancestor of the tip,
\* and no commit beyond the marker is on main
WorkspaceOnly(r) ==
    /\ r.refs["branch"] # 0
    /\ r.refs["start"] # 0
    /\ r.refs["start"] \in Reach(r, r.refs["branch"])
    /\ r.refs["main"] # 0 =>
          Beyond(r, r.refs["start"]) \cap Reach(r, r.refs["main"]) = {}

\* C33: for a task branch created by the outie and changed only in the
\* workspace, GetBranchCommitRange on the host (no start marker, merge-base
\* with main) returns what it returned in the workspace (commits after the
\* start marker), wherever the branch was created.
C33_FallbackMatchesPrimary ==
    (RangeCalled /\ WorkspaceOnly(repo)) =>
        \A mb \in mergeBase(hostView(repo), parentBranch(hostView(repo)), "branch") :
            GetBranchCommitRange(hostView(repo), mb) = range

\* C33 restricted to a branch created at a commit of main (holds)
C33_OnMain ==
    (RangeCalled /\ WorkspaceOnly(repo) /\ repo.refs["main"] # 0
       /\ repo.refs["start"] \in Reach(repo, repo.refs["main"])) =>
        \A mb \in mergeBase(hostView(repo), parentBranch(hostView(repo)), "branch") :
            GetBranchCommitRange(hostView(repo), mb) = range

\* what a StopServer call may find under ActualPid without having signalled
\* a process that is not the handle's daemon: nothing yet, the step skipped,
\* the daemon itself, or no process at all
OwnOrNothing == {"none", "skipped", "daemon", "free"}

\* C34: StopServer never signals a process other than the daemon StartServer
\* launched for the handle, also when it is called again after the daemon
\* has ended and its pid may have been handed to an unrelated process.
C34_SignalsOnlyOwnDaemon ==
    /\ signalled \in OwnOrNothing
    /\ \A i \in DOMAIN stopHist : stopHist[i].found \in OwnOrNothing

\* a StopServer call signals a process that is not the handle's daemon
SignalsStranger ==
    /\ stop = "kill"
    /\ stop' # "kill"
    /\ stopArg # Nil
    /\ SignalsPid(stopArg)
    /\ procs[stopArg.ActualPid].st # "free"
    /\ ~(procs[stopArg.ActualPid].st \in AliveStates /\ stopArg.ActualPid = cur)

\* every such signal goes to a process that took over the pid of the ended
\* daemon, or to a pid parsed from an incomplete file (holds)
C34_OnlyByReuse ==
    [][SignalsStranger =>
          \/ procs[stopArg.ActualPid].st \in {"other", "foreign"}
          \/ stopArg.fromFile # PidText(stopArg.ActualPid)]_vars

\* serverCmd.Wait() of a StopServer call can never return: the wrapper runs
\* as long as its daemon, the daemon serves, and nothing but a StopServer
\* call, which this one precedes, ends a serving daemon
WaitBlocked ==
    /\ stop = "wait"
    /\ wrapper = "running"
    /\ cur # 0
    /\ procs[cur].st = "serving"

\* C35: every StopServer call on the handle of a successful StartServer
\* returns: its wait on the wrapper completes, whether ActualPid was
\* signalled or the signal was skipped, so the call is never left waiting on
\* a wrapper whose daemon goes on serving.
C35_StopServerReturns == (srv = "ok" /\ stopArg # Nil) => ~WaitBlocked

\* C35 for a handle whose ActualPid is the pid of the daemon (holds)
C35_OwnPid ==
    (srv = "ok" /\ stopArg # Nil /\ stopArg.fromFile = PidText(stopArg.ActualPid))
        => ~WaitBlocked

\* C36: of two task runs that start their services on one host, the second
\* never has StartServer return success with a port the daemon of the first
\* has bound (busyPorts): an attempt on such a port fails and StartServer
\* goes on to another candidate, so each run has a port and daemon of its own.
C36_RunsNeverSharePort == srv = "ok" => retPort \notin busyPorts

\* a daemon of this run that serves has bound a port no other program holds
\* (holds)
C36_ServingOwnsPort ==
    \A p \in Pids : procs[p].st = "serving" => procs[p].port \notin busyPorts

\* a read of PostClaudeMenu finds the input exhausted or unreadable
ReadFails == ipc = "choice" /\ eof'

\* C37: PostClaudeMenu returns for every finite input: the read that finds
\* the input exhausted or unreadable ends the menu loop, the menu is not
\* presented again.
C37_MenuEndsOnExhaustedInput == [][ReadFails => ipc' # "menu"]_vars

\* once the input is exhausted it stays so, and every later read gives the
\* empty choice, which goes back to the menu (holds)
C37_ExhaustedLoops ==
    [][(ipc = "choice" /\ eof) => (eof' /\ choice' = "" /\ ipc' = "menu")]_vars

\* C38: every result of GetBranchCommitRange has first and last both empty
\* or both non-empty; an error comes with both empty; and when they are
\* non-empty, last is the tip of the branch and first is a commit of the
\* branch that is not reachable from the fence point.
C38_RangeWellFormed ==
    RangeCalled =>
        /\ (range.first = <<>>) <=> (range.last = <<>>)
        /\ range.err # "" => (range.first = <<>> /\ range.last = <<>>)
        /\ range.first # <<>> =>
              /\ range.last = FullHash(repo.refs["branch"])
              /\ \E f \in Fences(repo) : \E c \in Beyond(repo, f) :
                    range.first = FullHash(c)

\* C38 witness: a start marker that is not the tip, two or more commits
\* beyond it, and a result with two different endpoints
C38_Witness ==
    /\ RangeCalled
    /\ repo.refs["start"] # 0
    /\ range.err = ""
    /\ range.first # <<>>
    /\ range.first # range.last
    /\ range.last = FullHash(repo.refs["branch"])

====
